---- MODULE Spec2Model ----
(***************************************************************************)
(* Event-sourced mission core of Mission-Possible (swarmboard).            *)
(*                                                                         *)
(* The two MongoDB collections (missions, events) are the shared state.   *)
(* Every route handler (missions/start, events/emit, agents/tick,          *)
(* missions/fork) is an async function: it runs atomically between two     *)
(* awaits, and every await of a database operation is a point where other  *)
(* requests interleave.  A request in flight is a record in `calls`, with  *)
(* its program counter and the locals it holds across awaits.              *)
(*                                                                         *)
(* The view (app/page.tsx) is one record, `page`: its React state, its     *)
(* refs, the timers it has set and the fetches it awaits.  An event        *)
(* handler, a timer callback or the continuation of an await runs          *)
(* atomically, followed by the render and the effects whose dependencies   *)
(* it changed.                                                             *)
(***************************************************************************)
EXTENDS Integers, Sequences, FiniteSets, TLC

VARIABLES
    missions,   \* the missions collection: a set of mission documents
    events,     \* the events collection: a set of event documents
    indexed,    \* TRUE once the unique index {missionId, step} exists
    nextOid,    \* source of fresh ObjectIds
    clock,      \* wall clock read by `new Date()`
    calls,      \* request slot -> the request in flight (or its outcome)
    ncalls,     \* number of requests begun so far, by route
    page        \* the state of the view (app/page.tsx) in one browser tab

vars == <<missions, events, indexed, nextOid, clock, calls, ncalls, page>>

(***************************************************************************)
(* Bounds of the model.                                                    *)
(***************************************************************************)
MaxCalls == 2       \* requests sent to started missions in one behaviour of Spec
MaxClock == 1       \* the clock stops advancing here

Slots == {1, 2}     \* requests that can be in flight together

\* The requests one behaviour of Spec issues, by route.
Workload == [start |-> 1, emit |-> 2, tick |-> 2, fork |-> 1]

\* What is counted: the requests by route, and the crashes (or reloads),
\* the mission selections and the replays of the view.
Counters == DOMAIN Workload \cup {"crash", "select", "replay"}

(***************************************************************************)
(* lib/types.ts, lib/stepSchedule.ts                                       *)
(***************************************************************************)
validAgents == {"Planner", "Researcher", "Executor", "Critic"}

validTypes == {"PLAN", "ASSIGN", "TOOL_CALL", "TOOL_RESULT", "CHECKPOINT",
               "NOTE", "FAIL", "RETRY", "DONE"}

stepSchedule ==
    << [step |-> 1,  agent |-> "Planner",    type |-> "PLAN"],
       [step |-> 2,  agent |-> "Planner",    type |-> "ASSIGN"],
       [step |-> 3,  agent |-> "Researcher", type |-> "TOOL_CALL"],
       [step |-> 4,  agent |-> "Researcher", type |-> "TOOL_RESULT"],
       [step |-> 5,  agent |-> "Critic",     type |-> "NOTE"],
       [step |-> 6,  agent |-> "Planner",    type |-> "CHECKPOINT"],
       [step |-> 7,  agent |-> "Executor",   type |-> "TOOL_CALL"],
       [step |-> 8,  agent |-> "Executor",   type |-> "TOOL_RESULT"],
       [step |-> 9,  agent |-> "Researcher", type |-> "FAIL"],
       [step |-> 10, agent |-> "Executor",   type |-> "RETRY"],
       [step |-> 11, agent |-> "Executor",   type |-> "TOOL_RESULT"],
       [step |-> 12, agent |-> "Critic",     type |-> "NOTE"],
       [step |-> 13, agent |-> "Planner",    type |-> "CHECKPOINT"],
       [step |-> 14, agent |-> "Executor",   type |-> "TOOL_CALL"],
       [step |-> 15, agent |-> "Executor",   type |-> "TOOL_RESULT"],
       [step |-> 16, agent |-> "Critic",     type |-> "NOTE"],
       [step |-> 17, agent |-> "Planner",    type |-> "DONE"] >>

NoSchedule == [step |-> 0, agent |-> "", type |-> ""]

\* stepSchedule.find((s) => s.step === step) || null
getScheduleForStep(step) ==
    IF \E i \in DOMAIN stepSchedule : stepSchedule[i].step = step
    THEN stepSchedule[CHOOSE i \in DOMAIN stepSchedule :
                          /\ stepSchedule[i].step = step
                          /\ \A j \in DOMAIN stepSchedule :
                                 stepSchedule[j].step = step => i <= j]
    ELSE NoSchedule

\* The agent and type are taken from the first entry for the agent's turn,
\* not from the entry of the step.
agentAndTypeOfFirstTurn(step) ==
    IF getScheduleForStep(step) = NoSchedule THEN NoSchedule
    ELSE LET agent == getScheduleForStep(step).agent
             first == CHOOSE i \in DOMAIN stepSchedule :
                         /\ stepSchedule[i].agent = agent
                         /\ \A j \in DOMAIN stepSchedule :
                                stepSchedule[j].agent = agent => i <= j
         IN  [step |-> step, agent |-> agent, type |-> stepSchedule[first].type]

getAgentAndTypeForStep(step) == getScheduleForStep(step)

isFinalStep(step) == getScheduleForStep(step).type = "DONE"

\* The last step of the schedule is not counted.
totalStepsShort == Len(stepSchedule) - 1

getTotalSteps == Len(stepSchedule)

(***************************************************************************)
(* lib/demoScript.ts: the scripted content, the fallback of tick.          *)
(***************************************************************************)
demoScript ==
    << [step |-> 1,  agent |-> "Planner",    type |-> "PLAN",
        summary |-> "Mission initialized: Research and summarize latest AI trends",
        payload |-> "objective,estimatedSteps"],
       [step |-> 2,  agent |-> "Planner",    type |-> "ASSIGN",
        summary |-> "Assigned Researcher to gather data from academic sources",
        payload |-> "assignee,task"],
       [step |-> 3,  agent |-> "Researcher", type |-> "TOOL_CALL",
        summary |-> "Querying ArXiv API for recent transformer papers",
        payload |-> "tool,query"],
       [step |-> 4,  agent |-> "Researcher", type |-> "TOOL_RESULT",
        summary |-> "Found 47 relevant papers on attention mechanisms",
        payload |-> "resultCount,topPapers"],
       [step |-> 5,  agent |-> "Researcher", type |-> "NOTE",
        summary |-> "Key trend identified: State-space models challenging transformers",
        payload |-> "insight"],
       [step |-> 6,  agent |-> "Planner",    type |-> "CHECKPOINT",
        summary |-> "Checkpoint: Research phase 1 complete. 47 papers collected, SSM trend identified.",
        payload |-> "phase,papersCollected"],
       [step |-> 7,  agent |-> "Executor",   type |-> "TOOL_CALL",
        summary |-> "Summarizing top 10 papers using extraction pipeline",
        payload |-> "tool,inputCount"],
       [step |-> 8,  agent |-> "Executor",   type |-> "TOOL_RESULT",
        summary |-> "Generated summaries for all 10 papers",
        payload |-> "summariesGenerated,avgLength"],
       [step |-> 9,  agent |-> "Executor",   type |-> "FAIL",
        summary |-> "Failed to connect to external citation service (timeout)",
        payload |-> "error,service"],
       [step |-> 10, agent |-> "Executor",   type |-> "RETRY",
        summary |-> "Retrying citation lookup with fallback service",
        payload |-> "attempt,fallback"],
       [step |-> 11, agent |-> "Executor",   type |-> "TOOL_RESULT",
        summary |-> "Successfully retrieved citations via Semantic Scholar",
        payload |-> "citations,successfulRetry"],
       [step |-> 12, agent |-> "Critic",     type |-> "NOTE",
        summary |-> "Reviewing summary quality: 8/10 papers meet standards",
        payload |-> "approved,needsRevision"],
       [step |-> 13, agent |-> "Planner",    type |-> "CHECKPOINT",
        summary |-> "Checkpoint: Analysis complete. 8 quality summaries, 156 citations mapped.",
        payload |-> "phase,qualitySummaries,totalCitations"],
       [step |-> 14, agent |-> "Executor",   type |-> "TOOL_CALL",
        summary |-> "Generating final report with trend analysis",
        payload |-> "tool,format"],
       [step |-> 15, agent |-> "Executor",   type |-> "TOOL_RESULT",
        summary |-> "Final report generated: 2,400 words with visualizations",
        payload |-> "wordCount,charts,tables"],
       [step |-> 16, agent |-> "Critic",     type |-> "NOTE",
        summary |-> "Final review passed. Report is comprehensive and well-structured.",
        payload |-> "qualityScore,recommendation"],
       [step |-> 17, agent |-> "Planner",    type |-> "DONE",
        summary |-> "Mission complete: AI Trends Report delivered successfully",
        payload |-> "totalDuration,eventsProcessed"] >>

(***************************************************************************)
(* Documents.  An absent optional field is NoTs (a date) or "" (a string); *)
(* "" is also what JavaScript's || and ?. treat as absent.                 *)
(***************************************************************************)
NoTs == 0 - 1
NoOid == 0

NoMission ==
    [id |-> NoOid, status |-> "", currentStep |-> 0, updatedAt |-> NoTs,
     lastCheckpointAt |-> NoTs, latestSummary |-> "", runMode |-> "",
     branchFromMissionId |-> NoOid, branchFromStep |-> 0]

NoEvent ==
    [id |-> NoOid, missionId |-> NoOid, ts |-> NoTs, step |-> 0, agent |-> "",
     type |-> "", summary |-> "", payload |-> "", source |-> ""]

NoBody == [step |-> 0, agent |-> "", type |-> "", summary |-> "", payload |-> ""]

NoGen == [summary |-> "", payload |-> "", latestSummary |-> "", source |-> ""]

NoResp ==
    [code |-> 0, ok |-> FALSE, duplicate |-> FALSE, step |-> 0, status |-> "",
     used |-> "", event |-> NoEvent, missionId |-> NoOid]

Idle ==
    [op |-> "none", pc |-> "idle", fresh |-> FALSE, retry |-> FALSE,
     failedAt |-> "",
     missionId |-> NoOid, body |-> NoBody, runMode |-> "", forkStep |-> 0,
     mission |-> NoMission, now |-> NoTs, nextStep |-> 0, gen |-> NoGen,
     eventDoc |-> NoEvent, newMissionId |-> NoOid, newMission |-> NoMission,
     parentEvents |-> <<>>, forkedEvents |-> <<>>, resp |-> NoResp]

\* new Date(): the clock may have advanced since it was last read.
Dates == {t \in {clock, clock + 1} : t <= MaxClock}

(***************************************************************************)
(* lib/mongo.ts and the MongoDB operations the handlers use.               *)
(***************************************************************************)
\* The index is never created.
ensureIndexesSkipped == FALSE

\* createIndex({missionId: 1, step: 1}, {unique: true})
ensureIndexes == TRUE

\* collection.findOne({_id: id})
findMission(id) ==
    IF \E m \in missions : m.id = id
    THEN CHOOSE m \in missions : m.id = id
    ELSE NoMission

\* events.findOne({missionId, step})
findEvent(mid, step) ==
    IF \E e \in events : e.missionId = mid /\ e.step = step
    THEN CHOOSE e \in events : e.missionId = mid /\ e.step = step
    ELSE NoEvent

\* The index is created without `unique`: no insert is rejected.
duplicateKeyIgnored(doc) == FALSE

\* The unique index rejects the insert with E11000.
duplicateKey(doc) ==
    /\ indexed
    /\ \E e \in events : e.missionId = doc.missionId /\ e.step = doc.step

\* The document takes the place of every stored document of its step.
replaceByStep(collection, doc) ==
    {d \in collection : d.step # doc.step} \cup {doc}

\* collection.insertOne(doc), the unique index permitting
insertOne(collection, doc) == collection \cup {doc}

\* missions.updateOne({_id: id}, {$set: fields})
setFields(doc, fields) ==
    [id                  |-> doc.id,
     status              |-> IF "status" \in DOMAIN fields
                             THEN fields["status"] ELSE doc.status,
     currentStep         |-> IF "currentStep" \in DOMAIN fields
                             THEN fields["currentStep"] ELSE doc.currentStep,
     updatedAt           |-> IF "updatedAt" \in DOMAIN fields
                             THEN fields["updatedAt"] ELSE doc.updatedAt,
     lastCheckpointAt    |-> IF "lastCheckpointAt" \in DOMAIN fields
                             THEN fields["lastCheckpointAt"] ELSE doc.lastCheckpointAt,
     latestSummary       |-> IF "latestSummary" \in DOMAIN fields
                             THEN fields["latestSummary"] ELSE doc.latestSummary,
     runMode             |-> doc.runMode,
     branchFromMissionId |-> doc.branchFromMissionId,
     branchFromStep      |-> doc.branchFromStep]

\* The filter is ignored: every mission document is updated.
updateEvery(id, fields) == {setFields(m, fields) : m \in missions}

updateOne(id, fields) ==
    {IF m.id = id THEN setFields(m, fields) ELSE m : m \in missions}

NoFields == [f \in {} |-> 0]

\* The steps of a mission's log, and its events in ascending step order.
StepsOf(mid) == {e.step : e \in {x \in events : x.missionId = mid}}

Max(S) == CHOOSE x \in S : \A y \in S : y <= x

(***************************************************************************)
(* Requests.                                                               *)
(***************************************************************************)
InFlight(c) == calls[c].pc \notin {"idle", "done"}

Free(c) == ~InFlight(c)

\* A new request takes the first slot that holds no request in flight.
Begin(c, rec) ==
    /\ Free(c)
    /\ \A d \in Slots : d < c => InFlight(d)
    /\ calls' = [calls EXCEPT ![c] = rec]

Continue(c, rec) == calls' = [calls EXCEPT ![c] = rec]

\* The handler returns `resp`: its locals are gone, the request and its
\* response remain on record.
Return(c, rec, resp) ==
    calls' = [calls EXCEPT ![c] =
                 [Idle EXCEPT !.op = rec.op, !.pc = "done", !.fresh = rec.fresh,
                              !.retry = rec.retry, !.failedAt = rec.failedAt,
                              !.missionId = rec.missionId, !.body = rec.body,
                              !.runMode = rec.runMode, !.forkStep = rec.forkStep,
                              !.nextStep = rec.nextStep, !.resp = resp]]

Ok == [NoResp EXCEPT !.code = 200, !.ok = TRUE]

ErrorResp(code) == [NoResp EXCEPT !.code = code]

(***************************************************************************)
(* POST /api/missions/start                                                *)
(***************************************************************************)
RunModes == {"scripted", "real"}

\* The run mode of the missions started in Spec.
StartModes == {"real"}

\* body.runMode === "real" ? "real" : "scripted"
StartRequest(c, runMode) ==
    /\ Begin(c, [Idle EXCEPT !.op = "start", !.pc = "s_index",
                             !.runMode = runMode])
    /\ UNCHANGED <<missions, events, indexed, nextOid, clock>>

\* await ensureIndexes(); then now = new Date(), missionId = new ObjectId()
StartEnsureIndexes(c) ==
    /\ calls[c].op = "start" /\ calls[c].pc = "s_index"
    /\ indexed' = (indexed \/ ensureIndexes)
    /\ \E now \in Dates :
          /\ clock' = now
          /\ Continue(c, [calls[c] EXCEPT !.pc = "s_mission", !.now = now,
                                          !.missionId = nextOid])
    /\ nextOid' = nextOid + 1
    /\ UNCHANGED <<missions, events>>

\* await missions.insertOne(missionDoc)
StartInsertMission(c) ==
    /\ calls[c].op = "start" /\ calls[c].pc = "s_mission"
    /\ missions' = missions \cup
          {[NoMission EXCEPT !.id = calls[c].missionId, !.status = "running",
                             !.currentStep = 1, !.updatedAt = calls[c].now,
                             !.runMode = calls[c].runMode]}
    /\ Continue(c, [calls[c] EXCEPT !.pc = "s_event"])
    /\ UNCHANGED <<events, indexed, nextOid, clock>>

\* await events.insertOne({step: 1, agent: "Planner", type: "PLAN", ...})
StartInsertEvent(c) ==
    /\ calls[c].op = "start" /\ calls[c].pc = "s_event"
    /\ LET doc == [id |-> nextOid, missionId |-> calls[c].missionId,
                   ts |-> calls[c].now, step |-> 1, agent |-> "Planner",
                   type |-> "PLAN",
                   summary |-> "Mission initialized: Research and summarize latest AI trends",
                   payload |-> "objective,estimatedSteps", source |-> "scripted"]
       IN  IF duplicateKey(doc)
           THEN /\ Return(c, calls[c], ErrorResp(500))
                /\ UNCHANGED <<events, nextOid>>
           ELSE /\ events' = insertOne(events, doc)
                /\ nextOid' = nextOid + 1
                /\ Return(c, calls[c], [Ok EXCEPT !.missionId = calls[c].missionId])
    /\ UNCHANGED <<missions, indexed, clock>>

(***************************************************************************)
(* POST /api/events/emit                                                   *)
(***************************************************************************)
\* The requests of the scripted driver and of other callers.
EmitBodies ==
    { [step |-> 2,  agent |-> "Critic",   type |-> "CHECKPOINT",
       summary |-> "A", payload |-> "pA"],
      [step |-> 3,  agent |-> "Planner",  type |-> "CHECKPOINT",
       summary |-> "B", payload |-> "pB"],
      [step |-> 3,  agent |-> "Executor", type |-> "DONE",
       summary |-> "C", payload |-> "pC"],
      [step |-> 17, agent |-> "Critic",   type |-> "NOTE",
       summary |-> "D", payload |-> "pD"] }

\* The mission ids callers send: those of the stored missions.
Targets == {m.id : m \in missions}

\* A mission id that is no ObjectId (a string of another shape).
MalformedId == 0 - 2

\* ObjectId.isValid(id)
ObjectIdIsValid(id) == id > 0

\* !body.missionId, then ObjectId.isValid(body.missionId)
emitIdValid(mid) == mid # NoOid /\ ObjectIdIsValid(mid)

\* !body.step || !body.agent || !body.type || !body.summary, then the agent
\* and type lists.
emitValid(body) ==
    /\ body.step # 0
    /\ body.agent # ""
    /\ body.type # ""
    /\ body.summary # ""
    /\ body.agent \in validAgents
    /\ body.type \in validTypes

\* The same request was sent before and failed between its insert and
\* its update of the mission: this one is the caller's retry.
IsRetry(mid, body) ==
    \E d \in Slots : /\ calls[d].op = "emit" /\ calls[d].pc = "done"
                     /\ calls[d].failedAt = "e_update"
                     /\ calls[d].missionId = mid /\ calls[d].body = body

\* The step of the request holds no event yet when the request arrives.
IsFresh(mid, body) == findEvent(mid, body.step) = NoEvent

\* E11000 is not caught: the outer catch answers 500.
emitDuplicateRethrown == ErrorResp(500)

\* return NextResponse.json({ ok: true, duplicate: true })
emitDuplicateResp == [Ok EXCEPT !.duplicate = TRUE]

EmitRequest(c, mid, body) ==
    /\ Begin(c, IF emitIdValid(mid) /\ emitValid(body)
                THEN [Idle EXCEPT !.op = "emit", !.pc = "e_index", !.missionId = mid,
                                  !.body = body, !.retry = IsRetry(mid, body),
                                  !.fresh = IsFresh(mid, body)]
                ELSE [Idle EXCEPT !.op = "emit", !.pc = "done", !.missionId = mid,
                                  !.body = body, !.resp = [NoResp EXCEPT !.code = 400]])
    /\ UNCHANGED <<missions, events, indexed, nextOid, clock>>

\* await ensureIndexes()
EmitEnsureIndexes(c) ==
    /\ calls[c].op = "emit" /\ calls[c].pc = "e_index"
    /\ indexed' = (indexed \/ ensureIndexes)
    /\ Continue(c, [calls[c] EXCEPT !.pc = "e_find"])
    /\ UNCHANGED <<missions, events, nextOid, clock>>

\* const mission = await missions.findOne({_id}); 404 if none; now = new Date()
EmitFindMission(c) ==
    /\ calls[c].op = "emit" /\ calls[c].pc = "e_find"
    /\ LET mission == findMission(calls[c].missionId)
       IN  IF mission = NoMission
           THEN /\ Return(c, calls[c], ErrorResp(404))
                /\ UNCHANGED clock
           ELSE \E now \in Dates :
                   /\ clock' = now
                   /\ Continue(c, [calls[c] EXCEPT !.pc = "e_insert",
                                                   !.mission = mission, !.now = now])
    /\ UNCHANGED <<missions, events, indexed, nextOid>>

\* await events.insertOne({...}); E11000 is answered {ok: true, duplicate: true}
EmitInsertEvent(c) ==
    /\ calls[c].op = "emit" /\ calls[c].pc = "e_insert"
    /\ LET body == calls[c].body
           doc  == [id |-> nextOid, missionId |-> calls[c].missionId,
                    ts |-> calls[c].now, step |-> body.step, agent |-> body.agent,
                    type |-> body.type, summary |-> body.summary,
                    payload |-> body.payload, source |-> ""]
       IN  IF duplicateKey(doc)
           THEN /\ Return(c, calls[c], emitDuplicateResp)
                /\ UNCHANGED <<events, nextOid>>
           ELSE /\ events' = insertOne(events, doc)
                /\ nextOid' = nextOid + 1
                /\ Continue(c, [calls[c] EXCEPT !.pc = "e_update"])
    /\ UNCHANGED <<missions, indexed, clock>>

\* Every emit writes status: done for a DONE event, else running.
emitUpdateFieldsWithStatus(body, mission, now) ==
    ("updatedAt" :> now)
    @@ (IF body.step > mission.currentStep
        THEN ("currentStep" :> body.step) ELSE NoFields)
    @@ (IF body.type = "CHECKPOINT"
        THEN ("lastCheckpointAt" :> now) @@ ("latestSummary" :> body.summary)
        ELSE NoFields)
    @@ ("status" :> IF body.type = "DONE" THEN "done" ELSE "running")

\* updateFields of emit: currentStep only if body.step > mission.currentStep,
\* where `mission` is the document read before the insert.
emitUpdateFields(body, mission, now) ==
    ("updatedAt" :> now)
    @@ (IF body.step > mission.currentStep
        THEN ("currentStep" :> body.step) ELSE NoFields)
    @@ (IF body.type = "CHECKPOINT"
        THEN ("lastCheckpointAt" :> now) @@ ("latestSummary" :> body.summary)
        ELSE NoFields)
    @@ (IF body.type = "DONE" THEN ("status" :> "done") ELSE NoFields)

\* await missions.updateOne({_id}, {$set: updateFields}); return {ok: true}
EmitUpdateMission(c) ==
    /\ calls[c].op = "emit" /\ calls[c].pc = "e_update"
    /\ missions' = updateOne(calls[c].missionId,
                             emitUpdateFields(calls[c].body, calls[c].mission,
                                              calls[c].now))
    /\ Return(c, calls[c], Ok)
    /\ UNCHANGED <<events, indexed, nextOid, clock>>

(***************************************************************************)
(* POST /api/agents/tick                                                   *)
(***************************************************************************)
\* What generateEventWithOpenAI returns: null or {summary, payload,
\* artifactUpdate?}.
NoLLM == [summary |-> "", payload |-> "", latestSummary |-> ""]

\* What the generator meets in one call: whether OPENAI_API_KEY is set, what
\* fetch does, what the one retry after a 429 does, and the content of the
\* response that is parsed.
FetchStatuses == {"throws", "ok", "error", "rate_limited"}

RetryStatuses == {"throws", "ok", "error"}

Contents == {"none", "malformed", "no_summary", "summary", "summary_artifact"}

GeneratorOutcomes ==
    [apiKey : BOOLEAN, status : FetchStatuses, retry : RetryStatuses,
     content : Contents]

\* The summary of the parsed output is not validated.
parseContentUnvalidated(content) ==
    IF content = "summary_artifact"
    THEN [summary |-> "G", payload |-> "pG", latestSummary |-> "GA"]
    ELSE [summary |-> IF content = "summary" THEN "G" ELSE "",
          payload |-> "pG", latestSummary |-> ""]

\* content missing: null; JSON.parse throws: caught, null; no string
\* summary: null; else {summary, payload, artifactUpdate}.
parseContent(content) ==
    IF content = "summary"
    THEN [summary |-> "G", payload |-> "pG", latestSummary |-> ""]
    ELSE IF content = "summary_artifact"
    THEN [summary |-> "G", payload |-> "pG", latestSummary |-> "GA"]
    ELSE NoLLM

generateEventWithOpenAI(o) ==
    IF ~o.apiKey THEN NoLLM
    ELSE IF o.status = "throws" THEN NoLLM
    ELSE IF o.status = "ok" THEN parseContent(o.content)
    ELSE IF o.status = "rate_limited" /\ o.retry = "ok" THEN parseContent(o.content)
    ELSE NoLLM

\* The generator is not configured (no OPENAI_API_KEY).
Unconfigured ==
    {generateEventWithOpenAI(o) : o \in {x \in GeneratorOutcomes : ~x.apiKey}}

\* The generator fails: not configured, fetch throws, HTTP error, rate
\* limited and the retry fails, or the output is empty or malformed.
FailedOutcomes ==
    {o \in GeneratorOutcomes :
        \/ ~o.apiKey
        \/ o.status \in {"throws", "error"}
        \/ (o.status = "rate_limited" /\ o.retry # "ok")
        \/ o.content \in {"none", "malformed", "no_summary"}}

Degraded == {generateEventWithOpenAI(o) : o \in FailedOutcomes}

LLMResults == {generateEventWithOpenAI(o) : o \in GeneratorOutcomes}

\* The collaborator never answers: fetch is called without a timeout or an
\* abort signal, so `await fetch(...)` never settles and
\* generateEventWithOpenAI yields no result at all.
Unanswered == {}

\* The status of the mission is not looked at.
notRunningIgnored(mission) == FALSE

\* mission.status !== "running"
notRunning(mission) == mission.status # "running"

TickRequest(c, mid) ==
    /\ Begin(c, [Idle EXCEPT !.op = "tick", !.pc = "t_find", !.missionId = mid])
    /\ UNCHANGED <<missions, events, indexed, nextOid, clock>>

\* Load the mission; the no-op returns; nextStep = mission.currentStep + 1
TickFindMission(c) ==
    /\ calls[c].op = "tick" /\ calls[c].pc = "t_find"
    /\ LET mission  == findMission(calls[c].missionId)
           nextStep == mission.currentStep + 1
       IN  IF mission = NoMission
           THEN /\ Return(c, calls[c], ErrorResp(404))
                /\ UNCHANGED clock
           ELSE IF notRunning(mission)
           THEN /\ Return(c, calls[c], [Ok EXCEPT !.status = mission.status])
                /\ UNCHANGED clock
           ELSE IF nextStep > getTotalSteps
           THEN /\ Return(c, calls[c], [Ok EXCEPT !.status = "done"])
                /\ UNCHANGED clock
           ELSE IF getAgentAndTypeForStep(nextStep) = NoSchedule
           THEN /\ Return(c, calls[c], [Ok EXCEPT !.status = mission.status])
                /\ UNCHANGED clock
           ELSE \E now \in Dates :
                   /\ clock' = now
                   /\ Continue(c, [calls[c] EXCEPT !.pc = "t_existing",
                                                   !.mission = mission,
                                                   !.nextStep = nextStep,
                                                   !.now = now])
    /\ UNCHANGED <<missions, events, indexed, nextOid>>

\* The stored event is answered without its content.
existingResponseBare(existingEvent, nextStep) ==
    [Ok EXCEPT !.step = nextStep,
               !.used = IF existingEvent.source = "openai"
                        THEN "openai" ELSE "fallback"]

\* {ok: true, step: nextStep, used, event: existingEvent}
existingResponse(existingEvent, nextStep) ==
    [Ok EXCEPT !.step = nextStep,
               !.used = IF existingEvent.source = "openai"
                        THEN "openai" ELSE "fallback",
               !.event = existingEvent]

\* existingEvent = await events.findOne({missionId, step: nextStep})
TickFindExisting(c) ==
    /\ calls[c].op = "tick" /\ calls[c].pc = "t_existing"
    /\ LET existingEvent == findEvent(calls[c].missionId, calls[c].nextStep)
       IN  IF existingEvent # NoEvent
           THEN Return(c, calls[c],
                       existingResponse(existingEvent, calls[c].nextStep))
           ELSE Continue(c, [calls[c] EXCEPT !.pc = "t_generate"])
    /\ UNCHANGED <<missions, events, indexed, nextOid, clock>>

\* demoScript.find((e) => e.step === nextStep)
scriptedEvent(step) ==
    IF \E i \in DOMAIN demoScript : demoScript[i].step = step
    THEN demoScript[CHOOSE i \in DOMAIN demoScript : demoScript[i].step = step]
    ELSE [step |-> 0, agent |-> "", type |-> "", summary |-> "", payload |-> ""]

\* The content of the event: the generator's, else the script's, else generic.
tickContent(llmResult, nextStep) ==
    IF llmResult # NoLLM
    THEN [summary |-> llmResult.summary, payload |-> llmResult.payload,
          latestSummary |-> llmResult.latestSummary, source |-> "openai"]
    ELSE IF scriptedEvent(nextStep).step # 0
    THEN [summary |-> scriptedEvent(nextStep).summary,
          payload |-> scriptedEvent(nextStep).payload,
          latestSummary |-> "", source |-> "fallback"]
    ELSE [summary |-> "agent completed type for step", payload |-> "step,agent,type",
          latestSummary |-> "", source |-> "fallback"]

\* The context read, rerankEvents and generateEventWithOpenAI: they read the
\* store and call the collaborators, and yield the content of the event.
TickGenerate(c, generator) ==
    /\ calls[c].op = "tick" /\ calls[c].pc = "t_generate"
    /\ \E llmResult \in generator :
          Continue(c, [calls[c] EXCEPT !.pc = "t_insert",
                                       !.gen = tickContent(llmResult, calls[c].nextStep)])
    /\ UNCHANGED <<missions, events, indexed, nextOid, clock>>

\* await events.insertOne(eventDoc); E11000 leads to the re-read
TickInsertEvent(c) ==
    /\ calls[c].op = "tick" /\ calls[c].pc = "t_insert"
    /\ LET schedule == getAgentAndTypeForStep(calls[c].nextStep)
           eventDoc == [id |-> nextOid, missionId |-> calls[c].missionId,
                        ts |-> calls[c].now, step |-> calls[c].nextStep,
                        agent |-> schedule.agent, type |-> schedule.type,
                        summary |-> calls[c].gen.summary,
                        payload |-> calls[c].gen.payload,
                        source |-> calls[c].gen.source]
       IN  IF duplicateKey(eventDoc)
           THEN /\ Continue(c, [calls[c] EXCEPT !.pc = "t_refetch"])
                /\ UNCHANGED <<events, nextOid>>
           ELSE /\ events' = insertOne(events, eventDoc)
                /\ nextOid' = nextOid + 1
                /\ Continue(c, [calls[c] EXCEPT !.pc = "t_update",
                                                !.eventDoc = eventDoc])
    /\ UNCHANGED <<missions, indexed, clock>>

\* existing = await events.findOne({missionId, step: nextStep}); return it
TickRefetch(c) ==
    /\ calls[c].op = "tick" /\ calls[c].pc = "t_refetch"
    /\ Return(c, calls[c],
              [Ok EXCEPT !.step = calls[c].nextStep, !.used = "fallback",
                         !.event = findEvent(calls[c].missionId, calls[c].nextStep)])
    /\ UNCHANGED <<missions, events, indexed, nextOid, clock>>

\* A FAIL event sets the status to failed.
tickUpdateFieldsFailing(nextStep, type, gen, now) ==
    ("updatedAt" :> now) @@ ("currentStep" :> nextStep)
    @@ (IF type = "CHECKPOINT"
        THEN ("lastCheckpointAt" :> now)
             @@ ("latestSummary" :> IF gen.latestSummary # ""
                                    THEN gen.latestSummary ELSE gen.summary)
        ELSE NoFields)
    @@ (IF type = "DONE" \/ isFinalStep(nextStep)
        THEN ("status" :> "done") ELSE NoFields)
    @@ (IF type = "FAIL" THEN ("status" :> "failed") ELSE NoFields)

\* updateFields of tick
tickUpdateFields(nextStep, type, gen, now) ==
    ("updatedAt" :> now) @@ ("currentStep" :> nextStep)
    @@ (IF type = "CHECKPOINT"
        THEN ("lastCheckpointAt" :> now)
             @@ ("latestSummary" :> IF gen.latestSummary # ""
                                    THEN gen.latestSummary ELSE gen.summary)
        ELSE NoFields)
    @@ (IF type = "DONE" \/ isFinalStep(nextStep)
        THEN ("status" :> "done") ELSE NoFields)

\* await missions.updateOne({_id}, {$set: updateFields}); return the event
TickUpdateMission(c) ==
    /\ calls[c].op = "tick" /\ calls[c].pc = "t_update"
    /\ missions' = updateOne(calls[c].missionId,
                             tickUpdateFields(calls[c].nextStep,
                                              calls[c].eventDoc.type,
                                              calls[c].gen, calls[c].now))
    /\ Return(c, calls[c],
              [Ok EXCEPT !.step = calls[c].nextStep, !.used = calls[c].gen.source,
                         !.event = calls[c].eventDoc])
    /\ UNCHANGED <<events, indexed, nextOid, clock>>

(***************************************************************************)
(* POST /api/missions/fork                                                 *)
(***************************************************************************)
ForkSteps == {2, 20}

\* forkStep must be an integer >= 1
forkValid(forkStep) == forkStep >= 1

\* .sort({step: 1}).toArray(): ascending by step (by insertion among equals)
sortByStep(S) ==
    [i \in 1..Cardinality(S) |->
        CHOOSE e \in S :
            Cardinality({x \in S : \/ x.step < e.step
                                   \/ (x.step = e.step /\ x.id < e.id)}) = i - 1]

\* [...parentEvents].reverse().find((e) => e.type === "CHECKPOINT")
lastCheckpointOf(parentEvents) ==
    LET cps == {i \in DOMAIN parentEvents : parentEvents[i].type = "CHECKPOINT"}
    IN  IF cps = {} THEN NoEvent ELSE parentEvents[Max(cps)]

\* The new mission document of fork.
forkMission(newMissionId, parentMission, parentEvents, now) ==
    LET lastCheckpoint == lastCheckpointOf(parentEvents)
        actualForkStep == parentEvents[Len(parentEvents)].step
    IN  [id                  |-> newMissionId,
         status              |-> "running",
         currentStep         |-> actualForkStep,
         updatedAt           |-> now,
         lastCheckpointAt    |-> IF lastCheckpoint # NoEvent
                                 THEN lastCheckpoint.ts ELSE NoTs,
         latestSummary       |-> IF lastCheckpoint # NoEvent
                                    /\ lastCheckpoint.summary # ""
                                 THEN lastCheckpoint.summary
                                 ELSE parentMission.latestSummary,
         runMode             |-> "",
         branchFromMissionId |-> parentMission.id,
         branchFromStep      |-> actualForkStep]

\* The copies are made without the payload.
forkedEventsWithoutPayload(parentEvents, newMissionId, firstOid) ==
    [i \in DOMAIN parentEvents |->
        [id |-> firstOid + i - 1, missionId |-> newMissionId,
         ts |-> parentEvents[i].ts, step |-> parentEvents[i].step,
         agent |-> parentEvents[i].agent, type |-> parentEvents[i].type,
         summary |-> parentEvents[i].summary,
         payload |-> "", source |-> ""]]

\* parentEvents.map((event) => ({_id: new ObjectId(), missionId: newMissionId, ...}))
forkedEventsOf(parentEvents, newMissionId, firstOid) ==
    [i \in DOMAIN parentEvents |->
        [id |-> firstOid + i - 1, missionId |-> newMissionId,
         ts |-> parentEvents[i].ts, step |-> parentEvents[i].step,
         agent |-> parentEvents[i].agent, type |-> parentEvents[i].type,
         summary |-> parentEvents[i].summary,
         payload |-> parentEvents[i].payload, source |-> ""]]

ForkRequest(c, mid, forkStep) ==
    /\ Begin(c, IF forkValid(forkStep)
                THEN [Idle EXCEPT !.op = "fork", !.pc = "f_find", !.missionId = mid,
                                  !.forkStep = forkStep]
                ELSE [Idle EXCEPT !.op = "fork", !.pc = "done", !.missionId = mid,
                                  !.forkStep = forkStep,
                                  !.resp = [NoResp EXCEPT !.code = 400]])
    /\ UNCHANGED <<missions, events, indexed, nextOid, clock>>

\* parentMission = await missions.findOne({_id: parentObjectId})
ForkFindParent(c) ==
    /\ calls[c].op = "fork" /\ calls[c].pc = "f_find"
    /\ LET parentMission == findMission(calls[c].missionId)
       IN  IF parentMission = NoMission
           THEN Return(c, calls[c], ErrorResp(404))
           ELSE Continue(c, [calls[c] EXCEPT !.pc = "f_events",
                                             !.mission = parentMission])
    /\ UNCHANGED <<missions, events, indexed, nextOid, clock>>

\* parentEvents = await events.find({missionId, step: {$lte: forkStep}}).sort(..);
\* 400 if empty; then the new mission document is built.
ForkFindEvents(c) ==
    /\ calls[c].op = "fork" /\ calls[c].pc = "f_events"
    /\ LET parentEvents ==
               sortByStep({e \in events : /\ e.missionId = calls[c].missionId
                                          /\ e.step <= calls[c].forkStep})
       IN  IF Len(parentEvents) = 0
           THEN /\ Return(c, calls[c], ErrorResp(400))
                /\ UNCHANGED <<clock, nextOid>>
           ELSE \E now \in Dates :
                   /\ clock' = now
                   /\ nextOid' = nextOid + 1
                   /\ Continue(c, [calls[c] EXCEPT
                          !.pc = "f_mission", !.now = now,
                          !.newMissionId = nextOid,
                          !.parentEvents = parentEvents,
                          !.newMission = forkMission(nextOid, calls[c].mission,
                                                     parentEvents, now)])
    /\ UNCHANGED <<missions, events, indexed>>

\* await missions.insertOne(newMission); then forkedEvents is built
ForkInsertMission(c) ==
    /\ calls[c].op = "fork" /\ calls[c].pc = "f_mission"
    /\ missions' = missions \cup {calls[c].newMission}
    /\ nextOid' = nextOid + Len(calls[c].parentEvents)
    /\ Continue(c, [calls[c] EXCEPT
           !.pc = "f_copy",
           !.forkedEvents = forkedEventsOf(calls[c].parentEvents,
                                           calls[c].newMissionId, nextOid)])
    /\ UNCHANGED <<events, indexed, clock>>

\* await events.insertMany(forkedEvents): ordered, one document at a time,
\* stopping at the first E11000; return {missionId} when all are in.
ForkInsertMany(c) ==
    /\ calls[c].op = "fork" /\ calls[c].pc = "f_copy"
    /\ LET doc  == Head(calls[c].forkedEvents)
           rest == Tail(calls[c].forkedEvents)
       IN  IF duplicateKey(doc)
           THEN /\ Return(c, [calls[c] EXCEPT !.failedAt = "f_copy"], ErrorResp(500))
                /\ UNCHANGED events
           ELSE /\ events' = insertOne(events, doc)
                /\ IF rest = <<>>
                   THEN Return(c, calls[c],
                               [Ok EXCEPT !.missionId = calls[c].newMissionId])
                   ELSE Continue(c, [calls[c] EXCEPT !.forkedEvents = rest])
    /\ UNCHANGED <<missions, indexed, nextOid, clock>>

(***************************************************************************)
(* POST /api/dev/reset                                                     *)
(***************************************************************************)
ResetRequest(c) ==
    /\ Begin(c, [Idle EXCEPT !.op = "reset", !.pc = "r_missions"])
    /\ UNCHANGED <<missions, events, indexed, nextOid, clock>>

\* await missions.deleteMany({})
ResetDeleteMissions(c) ==
    /\ calls[c].op = "reset" /\ calls[c].pc = "r_missions"
    /\ missions' = {}
    /\ Continue(c, [calls[c] EXCEPT !.pc = "r_events"])
    /\ UNCHANGED <<events, indexed, nextOid, clock>>

\* await events.deleteMany({}); return {ok: true, deleted}
ResetDeleteEvents(c) ==
    /\ calls[c].op = "reset" /\ calls[c].pc = "r_events"
    /\ events' = {}
    /\ Return(c, calls[c], Ok)
    /\ UNCHANGED <<missions, indexed, nextOid, clock>>

(***************************************************************************)
(* app/page.tsx: the view.  `page` holds the React state (missionId,       *)
(* mission, events, isLoading, isCrashed, isRecovering, mode and the       *)
(* replay state), localStorage (stored), the refs (scheduledSteps,         *)
(* polling and ticking for pollIntervalRef and tickIntervalRef), the       *)
(* setTimeout callbacks not yet run (timers: one batch per call of         *)
(* scheduleDemoEvents, its steps firing in ascending order since the       *)
(* delays accumulate) and the GET /api/missions/get requests not yet       *)
(* resolved (fetches, each with the continuation that awaits it).          *)
(***************************************************************************)
NoPage ==
    [missionId |-> NoOid, stored |-> NoOid, mission |-> NoMission,
     events |-> <<>>, selectedRunMode |-> "scripted", isLoading |-> FALSE,
     isCrashed |-> FALSE, isRecovering |-> FALSE, mode |-> "live",
     replayEvents |-> <<>>, visibleEvents |-> <<>>, replayIndex |-> 0,
     replayFinished |-> FALSE, replayFromCheckpoint |-> FALSE,
     scheduledSteps |-> {}, polling |-> NoOid, ticking |-> NoOid,
     timers |-> {}, fetches |-> {}]

\* pollIntervalRef.current = setInterval(() => fetchMission(id), POLL_INTERVAL)
startPolling(p, id) == [p EXCEPT !.polling = id]

\* clearInterval(pollIntervalRef.current); pollIntervalRef.current = null
stopPolling(p) == [p EXCEPT !.polling = NoOid]

\* tickIntervalRef.current = setInterval(async () => tick(id), TICK_INTERVAL)
startTickLoop(p, id) == [p EXCEPT !.ticking = id]

stopTickLoop(p) == [p EXCEPT !.ticking = NoOid]

\* fetchMission(id) is called: the GET request is sent, `andThen` names
\* the code that awaits it.
fetchMission(p, andThen, id) ==
    [p EXCEPT !.fetches = @ \cup {[andThen |-> andThen, id |-> id,
                                   pc |-> "g_mission", mission |-> NoMission,
                                   events |-> <<>>]}]

\* demoScript.filter((e) => e.step > startFromStep && !scheduledStepsRef.current.has(e.step))
eventsToSchedule(startFromStep, scheduled) ==
    {demoScript[i].step :
        i \in {j \in DOMAIN demoScript : /\ demoScript[j].step > startFromStep
                                         /\ demoScript[j].step \notin scheduled}}

\* scheduleDemoEvents(currentMissionId, startFromStep)
scheduleDemoEvents(p, id, startFromStep) ==
    LET steps == eventsToSchedule(startFromStep, p.scheduledSteps)
    IN  IF steps = {} THEN p
        ELSE [p EXCEPT !.scheduledSteps = @ \cup steps,
                       !.timers = @ \cup {[missionId |-> id, steps |-> steps]}]

\* What the hydrate effect, handleRecover and handleSelectMission do with
\* the data of fetchMission: poll, and drive the mission if it is running.
resume(p, id, mission) ==
    IF mission = NoMission THEN p
    ELSE IF mission.status # "running" THEN startPolling(p, id)
    ELSE IF mission.runMode = "real"
    THEN startTickLoop(startPolling(p, id), id)
    ELSE scheduleDemoEvents(startPolling(p, id), id, mission.currentStep)

\* exitReplay()
exitReplay(p) ==
    LET live == [p EXCEPT !.mode = "live", !.replayEvents = <<>>,
                          !.visibleEvents = <<>>, !.replayIndex = 0,
                          !.replayFinished = FALSE]
    IN  IF p.missionId = NoOid THEN live
        ELSE IF p.mission.runMode = "real" /\ p.mission.status = "running"
        THEN startTickLoop(startPolling(live, p.missionId), p.missionId)
        ELSE startPolling(live, p.missionId)

\* startReplay(fromCheckpoint): the snapshot is the events the view holds;
\* from a checkpoint the replay starts at the (0-based) index of the last one.
startReplay(p, fromCheckpoint) ==
    IF Len(p.events) = 0 THEN p
    ELSE LET eventsToReplay == p.events
             cps == {i \in DOMAIN eventsToReplay :
                        eventsToReplay[i].type = "CHECKPOINT"}
             startIndex == IF fromCheckpoint /\ cps # {} THEN Max(cps) - 1 ELSE 0
         IN  [stopTickLoop(stopPolling(p)) EXCEPT
                 !.replayEvents = eventsToReplay,
                 !.replayIndex = startIndex,
                 !.visibleEvents = SubSeq(eventsToReplay, 1, startIndex),
                 !.replayFinished = FALSE,
                 !.replayFromCheckpoint = fromCheckpoint,
                 !.mode = "replay"]

\* The replay finishes on the tick that reveals the last event.
replayOverEarly(nextIndex, length) == nextIndex >= length

\* nextIndex > replayEvents.length
replayOver(nextIndex, length) == nextIndex > length

\* The callback of the replay interval.
replayStep(p) ==
    LET nextIndex == p.replayIndex + 1
    IN  IF replayOver(nextIndex, Len(p.replayEvents))
        THEN [p EXCEPT !.replayFinished = TRUE]
        ELSE [p EXCEPT !.visibleEvents = SubSeq(p.replayEvents, 1, nextIndex),
                       !.replayIndex = nextIndex]

\* The body of the hydrate effect runs (and registers its cleanup).
hydrates(p) == p.missionId # NoOid /\ ~p.isCrashed /\ p.mode = "live"

\* The render after a handler took the view from `old` to `new`, and the
\* effects whose dependencies changed: the hydrate effect ([missionId,
\* isCrashed, mode]: the cleanup of its last run, then its body) and the
\* effect that stops the loops of a done mission ([mission?.status, mode]).
render(old, new) ==
    LET cleaned  == IF hydrates(old) THEN stopTickLoop(stopPolling(new)) ELSE new
        hydrated == IF <<old.missionId, old.isCrashed, old.mode>>
                         = <<new.missionId, new.isCrashed, new.mode>>
                    THEN new
                    ELSE IF hydrates(new)
                    THEN fetchMission(cleaned, "hydrate", new.missionId)
                    ELSE cleaned
    IN  IF /\ <<old.mission.status, old.mode>> # <<new.mission.status, new.mode>>
           /\ new.mission.status = "done" /\ new.mode = "live"
        THEN stopTickLoop(stopPolling(hydrated))
        ELSE hydrated

\* The server state a page action leaves alone.
Store == <<missions, events, indexed, nextOid, clock>>

\* GET /api/missions/get: mission = await missions.findOne({_id}); 404 if none
GetFindMission(f) ==
    /\ f \in page.fetches /\ f.pc = "g_mission"
    /\ LET mission == findMission(f.id)
       IN  page' = [page EXCEPT !.fetches = (@ \ {f}) \cup
                       {[f EXCEPT !.pc = IF mission = NoMission
                                         THEN "back" ELSE "g_events",
                                  !.mission = mission]}]
    /\ UNCHANGED <<Store, calls>>

\* missionEvents = await events.find({missionId}).sort({step: 1}).limit(200)
\* .toArray(); the response is on its way
GetFindEvents(f) ==
    /\ f \in page.fetches /\ f.pc = "g_events"
    /\ page' = [page EXCEPT !.fetches = (@ \ {f}) \cup
                   {[f EXCEPT !.pc = "back",
                              !.events = sortByStep({e \in events :
                                            e.missionId = f.id})]}]
    /\ UNCHANGED <<Store, calls>>

\* fetchMission resolves: 404 forgets the mission, else setMission and
\* setEvents; then the code that awaited it runs.
FetchResolve(f) ==
    /\ f \in page.fetches /\ f.pc = "back"
    /\ LET gone  == [page EXCEPT !.fetches = @ \ {f}]
           set   == IF f.mission = NoMission
                    THEN [gone EXCEPT !.stored = NoOid, !.missionId = NoOid,
                                      !.mission = NoMission, !.events = <<>>]
                    ELSE [gone EXCEPT !.mission = f.mission, !.events = f.events]
           after == IF f.andThen = "poll" THEN set
                    ELSE IF f.andThen = "start"
                    THEN [(IF page.selectedRunMode = "real"
                           THEN startTickLoop(startPolling(set, f.id), f.id)
                           ELSE scheduleDemoEvents(startPolling(set, f.id), f.id, 1))
                          EXCEPT !.isLoading = FALSE]
                    ELSE resume(set, f.id, f.mission)
       IN  page' = render(page, after)
    /\ UNCHANGED <<Store, calls>>

\* handleStartDemo up to `await fetch("/api/missions/start")`
HandleStartDemo(c, runMode) ==
    /\ ~page.isCrashed /\ page.mode = "live"
    /\ ~page.isLoading /\ page.mission.status # "running"
    /\ StartRequest(c, runMode)
    /\ page' = render(page,
                  stopTickLoop(exitReplay([page EXCEPT
                      !.selectedRunMode = runMode, !.isLoading = TRUE,
                      !.scheduledSteps = {}])))

\* handleStartDemo from the response of start to `await fetchMission`
StartResponse(c) ==
    /\ calls[c].op = "start" /\ calls[c].pc = "done"
    /\ page.isLoading /\ \A f \in page.fetches : f.andThen # "start"
    /\ page' = IF calls[c].resp.code # 200
               THEN [page EXCEPT !.isLoading = FALSE]
               ELSE render(page,
                       fetchMission([page EXCEPT
                                        !.stored = calls[c].resp.missionId,
                                        !.missionId = calls[c].resp.missionId],
                                    "start", calls[c].resp.missionId))
    /\ UNCHANGED <<Store, calls>>

\* A setTimeout callback of scheduleDemoEvents runs: emitEvent(...) posts
\* the scripted event; the response is only logged.
TimerFires(c) ==
    \E batch \in page.timers :
        LET step  == CHOOSE s \in batch.steps : \A t \in batch.steps : s <= t
            rest  == batch.steps \ {step}
        IN  /\ EmitRequest(c, batch.missionId, scriptedEvent(step))
            /\ page' = [page EXCEPT !.timers =
                           (@ \ {batch}) \cup
                           (IF rest = {} THEN {}
                            ELSE {[batch EXCEPT !.steps = rest]})]

\* The callback of the poll interval: fetchMission(id), one at a time.
PollFires ==
    /\ page.polling # NoOid
    /\ \A f \in page.fetches : f.andThen # "poll"
    /\ page' = fetchMission(page, "poll", page.polling)
    /\ UNCHANGED <<Store, calls>>

\* The callback of the tick interval posts a tick ...
TickFires(c) ==
    /\ page.ticking # NoOid
    /\ TickRequest(c, page.ticking)
    /\ UNCHANGED page

\* ... and stops the loop when the tick answers done or failed.
TickLoopStops(c) ==
    /\ calls[c].op = "tick" /\ calls[c].pc = "done"
    /\ calls[c].resp.status \in {"done", "failed"}
    /\ page.ticking # NoOid
    /\ page' = stopTickLoop(page)
    /\ UNCHANGED <<Store, calls>>

\* handleCrash (the button is enabled while the mission runs)
HandleCrash ==
    /\ ~page.isCrashed /\ page.mode = "live"
    /\ page.mission.status = "running"
    /\ page' = render(page,
                  [stopTickLoop(stopPolling(page)) EXCEPT
                      !.scheduledSteps = {}, !.isCrashed = TRUE])
    /\ UNCHANGED <<Store, calls>>

\* handleRecover up to its 1500 ms pause
HandleRecover ==
    /\ page.isCrashed /\ ~page.isRecovering
    /\ page' = [page EXCEPT !.isRecovering = TRUE]
    /\ UNCHANGED <<Store, calls>>

\* handleRecover after the pause, up to `await fetchMission(missionId)`
RecoverResumes ==
    /\ page.isRecovering
    /\ LET live == [page EXCEPT !.isCrashed = FALSE, !.isRecovering = FALSE,
                                !.mode = "live"]
       IN  page' = render(page,
                      IF page.missionId = NoOid THEN live
                      ELSE fetchMission(live, "handler", page.missionId))
    /\ UNCHANGED <<Store, calls>>

\* The tab is reloaded: its state, timers and pending callbacks are gone,
\* localStorage is kept; on mount the stored missionId is set and the
\* hydrate effect runs.
Reload ==
    /\ page' = render([NoPage EXCEPT !.stored = page.stored],
                      [NoPage EXCEPT !.stored = page.stored,
                                     !.missionId = page.stored])
    /\ UNCHANGED <<Store, calls>>

\* handleSelectMission(selectedMissionId) up to `await fetchMission`
HandleSelectMission(mid) ==
    /\ ~page.isCrashed
    /\ page' = render(page,
                  fetchMission([stopTickLoop(stopPolling(exitReplay(page)))
                                  EXCEPT !.scheduledSteps = {}, !.stored = mid,
                                         !.missionId = mid],
                               "handler", mid))
    /\ UNCHANGED <<Store, calls>>

\* The Replay and Replay from CP buttons
StartReplay(fromCheckpoint) ==
    /\ ~page.isCrashed /\ page.mode = "live"
    /\ page.mission # NoMission /\ Len(page.events) > 0
    /\ fromCheckpoint => \E i \in DOMAIN page.events :
                             page.events[i].type = "CHECKPOINT"
    /\ page' = render(page, startReplay(page, fromCheckpoint))
    /\ UNCHANGED <<Store, calls>>

\* The replay interval, set while mode is replay and the replay is not
\* finished (replay tick effect), fires.
ReplayTick ==
    /\ page.mode = "replay" /\ ~page.replayFinished
    /\ page' = render(page, replayStep(page))
    /\ UNCHANGED <<Store, calls>>

\* The Exit Replay button
ExitReplay ==
    /\ ~page.isCrashed /\ page.mode = "replay"
    /\ page' = render(page, exitReplay(page))
    /\ UNCHANGED <<Store, calls>>

\* restartReplay: the Replay Again button
RestartReplay ==
    /\ ~page.isCrashed /\ page.mode = "replay" /\ page.replayFinished
    /\ page' = render(page, startReplay(page, page.replayFromCheckpoint))
    /\ UNCHANGED <<Store, calls>>

(***************************************************************************)
(* A write throws (or the process dies at it) after the handler's first    *)
(* write went through: the catch answers 500 and what the handler had      *)
(* still to write is not written.  (A failure before the first write       *)
(* leaves the store as if the request had not been sent.)                  *)
(***************************************************************************)
BetweenWrites == {"s_event", "e_update", "t_update", "f_copy"}

Routes == {"start", "emit", "tick", "fork"}

Fail(c, routes) ==
    /\ calls[c].op \in routes
    /\ calls[c].pc \in BetweenWrites
    /\ Return(c, [calls[c] EXCEPT !.failedAt = calls[c].pc], ErrorResp(500))
    /\ UNCHANGED <<missions, events, indexed, nextOid, clock>>

(***************************************************************************)
(* Specification.                                                          *)
(***************************************************************************)
Init ==
    /\ missions = {}
    /\ events = {}
    /\ indexed = FALSE
    /\ nextOid = 1
    /\ clock = 0
    /\ calls = [c \in Slots |-> Idle]
    /\ ncalls = [op \in Counters |-> 0]
    /\ page = NoPage

\* A request in flight runs to its next await.
Step(c, generator) ==
    \/ StartEnsureIndexes(c)
    \/ StartInsertMission(c)
    \/ StartInsertEvent(c)
    \/ EmitEnsureIndexes(c)
    \/ EmitFindMission(c)
    \/ EmitInsertEvent(c)
    \/ EmitUpdateMission(c)
    \/ TickFindMission(c)
    \/ TickFindExisting(c)
    \/ TickGenerate(c, generator)
    \/ TickInsertEvent(c)
    \/ TickRefetch(c)
    \/ TickUpdateMission(c)
    \/ ForkFindParent(c)
    \/ ForkFindEvents(c)
    \/ ForkInsertMission(c)
    \/ ForkInsertMany(c)

Total(n) == n.emit + n.tick + n.fork

\* A request of the workload is sent.
Counted(op) ==
    /\ op # "start" => Total(ncalls) < MaxCalls
    /\ ncalls[op] < Workload[op]
    /\ ncalls' = [ncalls EXCEPT ![op] = @ + 1]
    /\ UNCHANGED page

Request(c) ==
    \/ \E rm \in StartModes : Counted("start") /\ StartRequest(c, rm)
    \/ \E mid \in Targets, body \in EmitBodies :
           Counted("emit") /\ EmitRequest(c, mid, body)
    \/ \E mid \in Targets : Counted("tick") /\ TickRequest(c, mid)
    \/ \E mid \in Targets, forkStep \in ForkSteps :
           Counted("fork") /\ ForkRequest(c, mid, forkStep)

\* Requests overlap freely and any write after the first may fail.
Next ==
    \E c \in Slots :
        \/ Request(c)
        \/ Step(c, LLMResults) /\ UNCHANGED <<ncalls, page>>
        \/ Fail(c, Routes) /\ UNCHANGED <<ncalls, page>>

Spec == Init /\ [][Next]_vars

\* Requests overlap freely and every request runs to its response.
NextNoFail ==
    \E c \in Slots :
        \/ Request(c)
        \/ Step(c, LLMResults) /\ UNCHANGED <<ncalls, page>>

NoFailSpec == Init /\ [][NextNoFail]_vars

\* Requests overlap freely and a write of an emit request may fail.
NextEmitFails ==
    \E c \in Slots :
        \/ Request(c)
        \/ Step(c, LLMResults) /\ UNCHANGED <<ncalls, page>>
        \/ Fail(c, {"emit"}) /\ UNCHANGED <<ncalls, page>>

EmitFailSpec == Init /\ [][NextEmitFails]_vars

\* One mission is started and ticked for ever, the generator not
\* configured: the client's interval timer sends tick after tick (startTickLoop),
\* every request in flight runs on, and a write of a tick may fail.
Pollers == {1}

NextTicking ==
    \E c \in Pollers :
        \/ \E rm \in StartModes : Counted("start") /\ StartRequest(c, rm)
        \/ \E mid \in Targets : TickRequest(c, mid) /\ UNCHANGED <<ncalls, page>>
        \/ Step(c, Unconfigured) /\ UNCHANGED <<ncalls, page>>
        \/ Fail(c, {"tick"}) /\ UNCHANGED <<ncalls, page>>

FairSpec ==
    /\ Init
    /\ [][NextTicking]_vars
    /\ \A c \in Pollers :
          /\ WF_vars(Step(c, Unconfigured) /\ UNCHANGED <<ncalls, page>>)
          /\ WF_vars(\E mid \in Targets : TickRequest(c, mid) /\ UNCHANGED <<ncalls, page>>)

\* Requests overlap freely and the administrator may reset the data at any
\* time.
NextAdmin ==
    \E c \in Slots :
        \/ Request(c)
        \/ Step(c, LLMResults) /\ UNCHANGED <<ncalls, page>>
        \/ ResetRequest(c) /\ UNCHANGED <<ncalls, page>>
        \/ ResetDeleteMissions(c) /\ UNCHANGED <<ncalls, page>>
        \/ ResetDeleteEvents(c) /\ UNCHANGED <<ncalls, page>>

AdminSpec == Init /\ [][NextAdmin]_vars

\* Requests overlap freely, every request in flight runs on whenever it can,
\* and the content generator never answers.
NextSilent ==
    \E c \in Slots :
        \/ Request(c)
        \/ Step(c, Unanswered) /\ UNCHANGED <<ncalls, page>>

SilentSpec ==
    /\ Init
    /\ [][NextSilent]_vars
    /\ \A c \in Slots : WF_vars(Step(c, Unanswered) /\ UNCHANGED <<ncalls, page>>)

\* One caller starts a mission and sends emit requests of every shape, well
\* formed or not, one at a time.
ProbeSteps == {0, 0 - 1, 2}

ProbeBodies ==
    [step : ProbeSteps, agent : {"Critic", "Intruder"},
     type : {"NOTE", "BOGUS"}, summary : {"P"}, payload : {"pP"}]

MaxProbes == 2      \* emit requests sent in one behaviour of ProbeSpec

NextProbe ==
    \E c \in Pollers :
        \/ \E rm \in StartModes : Counted("start") /\ StartRequest(c, rm)
        \/ \E mid \in Targets \cup {MalformedId}, body \in ProbeBodies :
               /\ ncalls.emit < MaxProbes
               /\ ncalls' = [ncalls EXCEPT !.emit = @ + 1]
               /\ UNCHANGED page
               /\ EmitRequest(c, mid, body)
        \/ Step(c, LLMResults) /\ UNCHANGED <<ncalls, page>>

ProbeSpec == Init /\ [][NextProbe]_vars

\* One caller starts a mission and sends tick after tick, each when the
\* one before is answered; nothing fails.
MaxTicks == 18      \* ticks sent in one behaviour of SerialSpec

Serial(generator) ==
    \E c \in Pollers :
        \/ \E rm \in StartModes : Counted("start") /\ StartRequest(c, rm)
        \/ \E mid \in Targets :
               /\ ncalls.tick < MaxTicks
               /\ ncalls' = [ncalls EXCEPT !.tick = @ + 1]
               /\ UNCHANGED page
               /\ TickRequest(c, mid)
        \/ Step(c, generator) /\ UNCHANGED <<ncalls, page>>

\* ... with the generator not configured.
NextSerial == Serial(Unconfigured)

SerialSpec == Init /\ [][NextSerial]_vars

\* ... with a generator that fails in one of its ways at every call.
NextDegraded == Serial(Degraded)

DegradedSpec == Init /\ [][NextDegraded]_vars

\* One caller starts a mission, advances it with an emit and a tick (the
\* generator answering in any way) and forks it, one request at a time.
BranchBodies ==
    { [step |-> 2, agent |-> "Critic", type |-> "CHECKPOINT",
       summary |-> "A", payload |-> "pA"],
      [step |-> 5, agent |-> "Critic", type |-> "NOTE",
       summary |-> "E", payload |-> "pE"],
      [step |-> 8, agent |-> "Executor", type |-> "FAIL",
       summary |-> "F", payload |-> "pF"] }

BranchWorkload == [start |-> 1, emit |-> 1, tick |-> 1, fork |-> 1]

CountedBranch(op) ==
    /\ ncalls[op] < BranchWorkload[op]
    /\ ncalls' = [ncalls EXCEPT ![op] = @ + 1]
    /\ UNCHANGED page

NextBranch ==
    \E c \in Pollers :
        \/ \E rm \in StartModes : CountedBranch("start") /\ StartRequest(c, rm)
        \/ \E mid \in Targets, body \in BranchBodies :
               CountedBranch("emit") /\ EmitRequest(c, mid, body)
        \/ \E mid \in Targets : CountedBranch("tick") /\ TickRequest(c, mid)
        \/ \E mid \in Targets, forkStep \in ForkSteps :
               CountedBranch("fork") /\ ForkRequest(c, mid, forkStep)
        \/ Step(c, LLMResults) /\ UNCHANGED <<ncalls, page>>

BranchSpec == Init /\ [][NextBranch]_vars

\* The view starts a scripted mission and drives it with the timers of
\* scheduleDemoEvents; the user may crash the view and recover it, or reload
\* the tab, at any time.  The requests of the view reach the server one at
\* a time and nothing fails there.
\* The simulated crash comes late in the mission and when no fetch is
\* pending (the timers it leaves behind run on beside those of the
\* recovery); the clock has reached its bound.  (The poll loop, which only refreshes what the view shows, is not
\* run.)
MaxCrashes == 1     \* crashes and reloads in one behaviour of ScriptSpec
CrashFrom == 14     \* the persisted step from which the Crash button is pressed

InitLate ==
    /\ missions = {} /\ events = {} /\ indexed = FALSE /\ nextOid = 1
    /\ clock = MaxClock
    /\ calls = [c \in Slots |-> Idle]
    /\ ncalls = [op \in Counters |-> 0]
    /\ page = NoPage

Crashes ==
    /\ ncalls.crash < MaxCrashes
    /\ ncalls' = [ncalls EXCEPT !.crash = @ + 1]

NextScript ==
    \/ \E c \in Pollers :
           \/ /\ ncalls.start < Workload.start
              /\ ncalls' = [ncalls EXCEPT !.start = @ + 1]
              /\ HandleStartDemo(c, "scripted")
           \/ StartResponse(c) /\ UNCHANGED ncalls
           \/ TimerFires(c) /\ UNCHANGED ncalls
           \/ Step(c, Unconfigured) /\ UNCHANGED <<ncalls, page>>
    \/ \E f \in page.fetches :
           \/ GetFindMission(f) /\ UNCHANGED ncalls
           \/ GetFindEvents(f) /\ UNCHANGED ncalls
           \/ FetchResolve(f) /\ UNCHANGED ncalls
    \/ /\ findMission(page.missionId).currentStep >= CrashFrom
       /\ page.fetches = {}
       /\ Crashes /\ HandleCrash
    \/ HandleRecover /\ UNCHANGED ncalls
    \/ RecoverResumes /\ UNCHANGED ncalls
    \/ Crashes /\ Reload

ScriptSpec == InitLate /\ [][NextScript]_vars

\* A mission is started in real mode and receives a few events from other
\* callers, one request at a time; the view selects the mission from the
\* history, polls it, runs its tick loop and replays it.
MaxReplays == 1     \* replays started from the live view in one behaviour of ReplaySpec

ReplayBodies == {body \in EmitBodies : body.step = 3}

Uses(counter, bound) ==
    /\ ncalls[counter] < bound
    /\ ncalls' = [ncalls EXCEPT ![counter] = @ + 1]

NextReplay ==
    \/ \E c \in Pollers :
           \/ \E rm \in StartModes : Counted("start") /\ StartRequest(c, rm)
           \/ \E mid \in Targets, body \in ReplayBodies :
                  Uses("emit", 1) /\ EmitRequest(c, mid, body) /\ UNCHANGED page
           \/ Uses("tick", 1) /\ TickFires(c)
           \/ TickLoopStops(c) /\ UNCHANGED ncalls
           \/ Step(c, Unconfigured) /\ UNCHANGED <<ncalls, page>>
    \/ \E mid \in Targets : Uses("select", 1) /\ HandleSelectMission(mid)
    \/ \E f \in page.fetches :
           \/ GetFindMission(f) /\ UNCHANGED ncalls
           \/ GetFindEvents(f) /\ UNCHANGED ncalls
           \/ FetchResolve(f) /\ UNCHANGED ncalls
    \/ PollFires /\ UNCHANGED ncalls
    \/ \E fromCheckpoint \in BOOLEAN :
           Uses("replay", MaxReplays) /\ StartReplay(fromCheckpoint)
    \/ ReplayTick /\ UNCHANGED ncalls
    \/ ExitReplay /\ UNCHANGED ncalls
    \/ RestartReplay /\ UNCHANGED ncalls

\* The replay interval keeps firing while it is set.
ReplaySpec ==
    /\ InitLate
    /\ [][NextReplay]_vars
    /\ WF_vars(ReplayTick /\ UNCHANGED ncalls)

\* One caller starts a mission in either run mode, ticks it and forks it,
\* one request at a time; the generator answers in any way and nothing fails.
ModeWorkload == [start |-> 1, tick |-> 2, fork |-> 1]

NextModes ==
    \E c \in Pollers :
        \/ \E rm \in RunModes :
               Uses("start", ModeWorkload.start) /\ StartRequest(c, rm) /\ UNCHANGED page
        \/ \E mid \in Targets :
               Uses("tick", ModeWorkload.tick) /\ TickRequest(c, mid) /\ UNCHANGED page
        \/ \E mid \in Targets, forkStep \in ForkSteps :
               Uses("fork", ModeWorkload.fork) /\ ForkRequest(c, mid, forkStep)
               /\ UNCHANGED page
        \/ Step(c, LLMResults) /\ UNCHANGED <<ncalls, page>>

ModeSpec == Init /\ [][NextModes]_vars

\* A mission is started and ticked by two callers whose requests overlap
\* freely, the first tick perhaps before start has written its event; the
\* generator is not configured, nothing fails and the clock has reached its
\* bound.
NextOverlap ==
    \E c \in Slots :
        \/ \E rm \in StartModes : Counted("start") /\ StartRequest(c, rm)
        \/ \E mid \in Targets :
               Uses("tick", MaxTicks) /\ TickRequest(c, mid) /\ UNCHANGED page
        \/ Step(c, Unconfigured) /\ UNCHANGED <<ncalls, page>>

OverlapSpec == InitLate /\ [][NextOverlap]_vars

\* One caller starts a mission and ticks it, forks it once at any moment and
\* from then on ticks the fork, one request at a time; the generator is not
\* configured and nothing fails.  Every request in flight runs on, and the
\* caller sends tick after tick to the newest mission (as the setInterval of
\* startTickLoop does for the mission on display).
Newest == IF Targets = {} THEN NoOid ELSE Max(Targets)

TickNewest(c) ==
    /\ Targets # {}
    /\ TickRequest(c, Newest)
    /\ UNCHANGED <<ncalls, page>>

NextRerun ==
    \E c \in Pollers :
        \/ \E rm \in StartModes : Counted("start") /\ StartRequest(c, rm)
        \/ TickNewest(c)
        \/ \E mid \in Targets, forkStep \in ForkSteps :
               Uses("fork", 1) /\ ForkRequest(c, mid, forkStep) /\ UNCHANGED page
        \/ Step(c, Unconfigured) /\ UNCHANGED <<ncalls, page>>

RerunSpec ==
    /\ InitLate
    /\ [][NextRerun]_vars
    /\ \A c \in Pollers :
          /\ WF_vars(Step(c, Unconfigured) /\ UNCHANGED <<ncalls, page>>)
          /\ SF_vars(TickNewest(c))

\* One caller starts a mission, sends it events at the last step of the
\* schedule and beyond it, ticks it and forks it, one request at a time;
\* the generator is not configured and nothing fails.
RangeBodies ==
    { [step |-> getTotalSteps, agent |-> "Critic", type |-> "NOTE",
       summary |-> "G", payload |-> "pG"],
      [step |-> getTotalSteps + 1, agent |-> "Critic", type |-> "NOTE",
       summary |-> "H", payload |-> "pH"] }

RangeWorkload == [emit |-> 2, tick |-> 2, fork |-> 1]

NextRange ==
    \E c \in Pollers :
        \/ \E rm \in StartModes : Counted("start") /\ StartRequest(c, rm)
        \/ \E mid \in Targets, body \in RangeBodies :
               Uses("emit", RangeWorkload.emit) /\ EmitRequest(c, mid, body)
               /\ UNCHANGED page
        \/ \E mid \in Targets :
               Uses("tick", RangeWorkload.tick) /\ TickRequest(c, mid) /\ UNCHANGED page
        \/ \E mid \in Targets, forkStep \in ForkSteps :
               Uses("fork", RangeWorkload.fork) /\ ForkRequest(c, mid, forkStep)
               /\ UNCHANGED page
        \/ Step(c, Unconfigured) /\ UNCHANGED <<ncalls, page>>

RangeSpec == Init /\ [][NextRange]_vars

(***************************************************************************)
(* Properties.                                                             *)
(***************************************************************************)
Quiescent == \A c \in Slots : ~InFlight(c)

LogOf(mid) == {e \in events : e.missionId = mid}

MaxStep(mid) == IF StepsOf(mid) = {} THEN 0 ELSE Max(StepsOf(mid))

EmitReturned(c) == calls[c].op = "emit" /\ calls[c].pc = "done"

\* C1: in every reachable state the event store holds at most one event
\* for each (missionId, step).
C1_UniqueMissionStep ==
    \A e1 \in events, e2 \in events :
        (e1.missionId = e2.missionId /\ e1.step = e2.step) => e1 = e2

\* A second writer of a stored (missionId, step) was turned away.
C1_Witness ==
    \E c \in Slots : EmitReturned(c) /\ calls[c].resp.duplicate

\* Two emit requests race for one free step with different content and
\* neither meets a storage failure.
EmitRace(c, d) ==
    /\ c # d
    /\ EmitReturned(c) /\ EmitReturned(d)
    /\ calls[c].missionId = calls[d].missionId
    /\ calls[c].body.step = calls[d].body.step
    /\ calls[c].body # calls[d].body
    /\ calls[c].fresh /\ calls[d].fresh
    /\ calls[c].failedAt = "" /\ calls[d].failedAt = ""

\* C2: of two emit requests racing for the same (missionId, step) with
\* different content exactly one event is stored, both are answered 200 ok,
\* one plainly and the other with the duplicate flag.
C2_ConcurrentEmitOneStored ==
    \A c \in Slots, d \in Slots :
        EmitRace(c, d) =>
            /\ Cardinality({e \in LogOf(calls[c].missionId) :
                               e.step = calls[c].body.step}) = 1
            /\ calls[c].resp.code = 200 /\ calls[c].resp.ok
            /\ calls[d].resp.code = 200 /\ calls[d].resp.ok
            /\ calls[c].resp.duplicate # calls[d].resp.duplicate

C2_Witness == \E c \in Slots, d \in Slots : EmitRace(c, d)

\* C3: no write to a mission ever lowers its currentStep.
C3_CurrentStepMonotone ==
    [][\A m \in missions : \A n \in missions' :
          n.id = m.id => n.currentStep >= m.currentStep]_vars

\* C4: with no request in progress, every mission's currentStep equals the
\* maximum step among its stored events.
C4_QuiescentCurrentStepIsMax ==
    Quiescent => \A m \in missions : m.currentStep = MaxStep(m.id)

\* C5: in every reachable state, between the writes of a request and after
\* a failure inside it too, a mission's currentStep is never greater than
\* the maximum step among its stored events.
C5_AggregateNeverLeads ==
    \A m \in missions : m.currentStep <= MaxStep(m.id)

\* A tick request inserted the event at step n and stopped before it
\* updated the mission.
TickStoppedAfterInsert(c, n) ==
    /\ calls[c].op = "tick" /\ calls[c].pc = "done"
    /\ calls[c].failedAt = "t_update"
    /\ calls[c].nextStep = n

\* C6: after a tick stopped between inserting the event at step n and
\* updating the mission, the ticks that follow bring currentStep to at
\* least n and the mission to status done.
C6_TickCatchesUp ==
    \A c \in Pollers, n \in 2..getTotalSteps :
        /\ TickStoppedAfterInsert(c, n)
              ~> (\A m \in missions : m.currentStep >= n)
        /\ TickStoppedAfterInsert(c, n)
              ~> (\A m \in missions : m.status = "done")

\* C7: when an emit request failed after its insert and before its update
\* of the mission, and the caller sent it again, the mission reflects the
\* event once the retry is answered and no request is in progress:
\* currentStep at least its step, the checkpoint fields set for a
\* CHECKPOINT, status done for a DONE.
C7_RetryReflectsEvent ==
    \A c \in Slots :
        (Quiescent /\ EmitReturned(c) /\ calls[c].retry
                   /\ calls[c].resp.code = 200) =>
            LET m == findMission(calls[c].missionId)
                body == calls[c].body
            IN  /\ m.currentStep >= body.step
                /\ body.type = "CHECKPOINT" =>
                       (m.latestSummary # "" /\ m.lastCheckpointAt # NoTs)
                /\ body.type = "DONE" => m.status = "done"

\* The mission was created by start (not by fork).
Started(m) == m.branchFromMissionId = NoOid

\* C8: after completed start, emit and tick requests a mission's status is
\* done exactly if its log holds a DONE event or an event at the terminal
\* step of the schedule.
C8_DoneIffTerminalEvent ==
    Quiescent =>
        \A m \in missions :
            Started(m) =>
                (m.status = "done"
                    <=> \E e \in LogOf(m.id) :
                           e.type = "DONE" \/ e.step = getTotalSteps)

\* The CHECKPOINT event of the highest step in a log (NoEvent if none).
HighestCheckpoint(log) ==
    LET cps == {e \in log : e.type = "CHECKPOINT"}
    IN  IF cps = {} THEN NoEvent
        ELSE CHOOSE e \in cps : \A x \in cps : x.step <= e.step

\* C9: with no request in progress, a mission's cached checkpoint fields are
\* those of the fold of its log in step order: the summary and timestamp of
\* the CHECKPOINT event of the highest step, and absent if there is none.
C9_CheckpointFieldsAreFold ==
    Quiescent =>
        \A m \in missions :
            Started(m) =>
                LET cp == HighestCheckpoint(LogOf(m.id))
                IN  /\ m.latestSummary = cp.summary
                    /\ m.lastCheckpointAt = cp.ts

\* C10: every step of an emit request whose (missionId, step) already held
\* an event when it arrived leaves the events and the mission documents as
\* they are, and the request is answered 200 ok with the duplicate flag.
C10_DuplicateEmitChangesNothing ==
    [][\A c \in Slots :
          (/\ calls[c].op = "emit" /\ InFlight(c) /\ ~calls[c].fresh
           /\ calls'[c] # calls[c])
          => /\ events' = events
             /\ missions' = missions
             /\ calls'[c].pc = "done" =>
                   /\ calls'[c].resp.code = 200
                   /\ calls'[c].resp.ok
                   /\ calls'[c].resp.duplicate]_vars

\* An emit request for a step that already held an event has been answered.
C10_Witness ==
    \E c \in Slots : /\ EmitReturned(c) /\ ~calls[c].fresh
                     /\ calls[c].resp.duplicate

\* The number of tick requests that take a fresh mission to its end.
TicksToDone == Len(stepSchedule) - 1

Min(a, b) == IF a < b THEN a ELSE b

TickReturned(c) == calls[c].op = "tick" /\ calls[c].pc = "done"

\* C11: on a fresh mission ticked one request at a time, with no other
\* writer, the k-th tick leaves currentStep at 1 + k for k up to 16, status
\* is done exactly from the 16th on, and every further tick is answered
\* done and changes neither the log nor the mission.
C11_SerialTicksReachDone ==
    /\ [](Quiescent =>
            \A m \in missions :
                /\ m.currentStep = 1 + Min(ncalls.tick, TicksToDone)
                /\ StepsOf(m.id) = 1..m.currentStep
                /\ m.status = "done" <=> ncalls.tick >= TicksToDone)
    /\ [][ncalls'.tick > TicksToDone =>
            /\ events' = events
            /\ missions' = missions
            /\ \A c \in Pollers :
                   (TickReturned(c)' /\ ~TickReturned(c)) =>
                       /\ calls'[c].resp.code = 200 /\ calls'[c].resp.ok
                       /\ calls'[c].resp.status = "done"
                       /\ calls'[c].resp.event = NoEvent]_vars

\* The tick after the sixteenth has been answered.
C11_Witness ==
    /\ Quiescent /\ ncalls.tick = TicksToDone + 1
    /\ \E c \in Pollers : TickReturned(c) /\ calls[c].resp.status = "done"

\* Two tick requests read the same currentStep of one mission: both computed
\* the same next step, and both have been answered.
TickPair(c, d) ==
    /\ c # d
    /\ TickReturned(c) /\ TickReturned(d)
    /\ calls[c].missionId = calls[d].missionId
    /\ calls[c].nextStep # 0
    /\ calls[c].nextStep = calls[d].nextStep

\* C12: when two tick requests overlap at the same currentStep (and no emit
\* is sent), one event is stored at currentStep + 1, both requests are
\* answered 200 ok with that stored event, the mission was written by the
\* winner only, and currentStep has advanced by exactly one.
C12_OverlappingTicksOneEvent ==
    \A c \in Slots, d \in Slots :
        (Quiescent /\ ncalls.emit = 0 /\ TickPair(c, d)) =>
            LET n      == calls[c].nextStep
                m      == findMission(calls[c].missionId)
                stored == {e \in LogOf(calls[c].missionId) : e.step = n}
            IN  /\ Cardinality(stored) = 1
                /\ calls[c].resp.code = 200 /\ calls[c].resp.ok
                /\ calls[d].resp.code = 200 /\ calls[d].resp.ok
                /\ calls[c].resp.step = n /\ calls[d].resp.step = n
                /\ stored = {calls[c].resp.event}
                /\ stored = {calls[d].resp.event}
                /\ m.currentStep = n
                /\ \A e \in stored : m.updatedAt = e.ts

\* Two overlapping ticks have both been answered.
C12_Witness ==
    \E c \in Slots, d \in Slots :
        Quiescent /\ ncalls.emit = 0 /\ TickPair(c, d)

\* C13: once a mission's status is done, no step of any start, emit, tick
\* or fork request changes it to another value (or removes the mission).
C13_DoneIsTerminal ==
    [][\A m \in missions :
          m.status = "done" =>
              \E n \in missions' : n.id = m.id /\ n.status = "done"]_vars

\* An emit request read a mission that was done, inserted its event and
\* has written the mission.
C13_Witness ==
    \E c \in Slots, m \in missions :
        /\ EmitReturned(c) /\ calls[c].missionId = m.id
        /\ calls[c].resp.code = 200 /\ ~calls[c].resp.duplicate
        /\ calls[c].body.type # "DONE"
        /\ m.status = "done"
        /\ \E e \in LogOf(m.id) :
               /\ e.step = calls[c].body.step
               /\ e.summary = calls[c].body.summary
               /\ m.updatedAt = e.ts
               /\ \E f \in LogOf(m.id) : f.type = "DONE" /\ f.id < e.id

\* Fork request c reads the parent's events and builds the new mission
\* document in this step, and no other request is in flight.
ForkDecides(c) ==
    /\ calls[c].op = "fork" /\ calls[c].pc = "f_events"
    /\ calls'[c].pc = "f_mission"
    /\ \A d \in Slots \ {c} : ~InFlight(d)

\* C14: a fork whose forkStep is greater than the parent's highest stored
\* step clamps: the new mission's currentStep and branchFromStep are the
\* parent's highest stored step, and that is the parent's currentStep.
C14_ForkClampsToCurrentStep ==
    [][\A c \in Slots :
          (ForkDecides(c) /\ calls[c].forkStep > MaxStep(calls[c].missionId)) =>
              /\ calls'[c].newMission.currentStep = MaxStep(calls[c].missionId)
              /\ calls'[c].newMission.branchFromStep = MaxStep(calls[c].missionId)
              /\ MaxStep(calls[c].missionId)
                     = findMission(calls[c].missionId).currentStep]_vars

Range(seq) == {seq[i] : i \in DOMAIN seq}

\* Event e is a copy of event p: another identity, the same content.
CopyOf(e, p) ==
    /\ e.id # p.id
    /\ e.step = p.step /\ e.agent = p.agent /\ e.type = p.type
    /\ e.summary = p.summary /\ e.payload = p.payload /\ e.ts = p.ts

\* Fork request c is answered 200 in this step.
ForkReturns(c) ==
    /\ calls[c].op = "fork" /\ calls[c].pc = "f_copy"
    /\ calls'[c].pc = "done" /\ calls'[c].resp.code = 200

\* The identities fork request c gave its copies (its last copy is the head
\* of what is left to insert).
ForkIds(c) ==
    LET last == Head(calls[c].forkedEvents).id
    IN  (last - Len(calls[c].parentEvents) + 1)..last

Lineage(a, b) == a.branchFromMissionId = b.id \/ b.branchFromMissionId = a.id

\* Request c, an emit or a tick, takes a step.
WriterSteps(c) ==
    /\ calls[c].op \in {"emit", "tick"}
    /\ InFlight(c)
    /\ calls'[c] # calls[c]

\* C16: after a fork, every step of an emit or tick request on one side of
\* the fork leaves the events and the mission document of the other side
\* unchanged.
C16_LineagesDecoupled ==
    [][\A c \in Slots : \A a \in missions, b \in missions :
          (WriterSteps(c) /\ calls[c].missionId = a.id /\ Lineage(a, b)) =>
              /\ b \in missions'
              /\ {e \in events' : e.missionId = b.id} = LogOf(b.id)]_vars

\* An emit request on a forked mission has inserted its event and written
\* the mission.
C16_Witness ==
    \E c \in Slots, a \in missions :
        /\ a.branchFromMissionId # NoOid
        /\ EmitReturned(c) /\ calls[c].missionId = a.id
        /\ calls[c].resp.code = 200 /\ ~calls[c].resp.duplicate
        /\ \E e \in LogOf(a.id) : e.summary = calls[c].body.summary

\* C17: the mission document a fork creates is the fold of the copied
\* events with status running: currentStep is the highest copied step, and
\* latestSummary and lastCheckpointAt are those of the last CHECKPOINT among
\* the copied events, both absent when there is none.
C17_ForkAggregateIsFold ==
    \A c \in Slots :
        (calls[c].op = "fork" /\ calls[c].pc = "f_mission") =>
            LET copied == Range(calls[c].parentEvents)
                cp     == HighestCheckpoint(copied)
                new    == calls[c].newMission
            IN  /\ new.status = "running"
                /\ new.currentStep = Max({e.step : e \in copied})
                /\ new.latestSummary = cp.summary
                /\ new.lastCheckpointAt = cp.ts

\* The parent's latest event is a CHECKPOINT at the parent's currentStep and
\* fork request c, which has built the new mission, covers the whole log.
ForkAtCheckpoint(c) ==
    /\ calls[c].op = "fork" /\ calls[c].pc = "f_mission"
    /\ calls[c].forkStep >= MaxStep(calls[c].missionId)
    /\ \E e \in LogOf(calls[c].missionId) :
           /\ e.step = MaxStep(calls[c].missionId)
           /\ e.step = findMission(calls[c].missionId).currentStep
           /\ e.type = "CHECKPOINT"

\* C18: when the parent's latest event is a CHECKPOINT at its currentStep
\* and the fork covers the whole log, the new mission's lastCheckpointAt and
\* latestSummary are the parent's cached ones, however the checkpoint was
\* produced.
C18_ForkMatchesParentCheckpoint ==
    \A c \in Slots :
        ForkAtCheckpoint(c) =>
            LET parent == findMission(calls[c].missionId)
            IN  /\ calls[c].newMission.lastCheckpointAt = parent.lastCheckpointAt
                /\ calls[c].newMission.latestSummary = parent.latestSummary

\* C19: with the generator not configured, the ticks on a fresh mission
\* write the steps 2, 3, ... in that order, every event with source
\* fallback and the agent and type the schedule prescribes for its step, and
\* after 16 ticks the log holds the steps 1..17 and the mission is done at
\* currentStep 17.
C19_FallbackRunFollowsSchedule ==
    \A m \in missions :
        /\ \A e \in LogOf(m.id) :
               e.step >= 2 =>
                   /\ e.source = "fallback"
                   /\ e.step \in DOMAIN stepSchedule
                   /\ e.agent = stepSchedule[e.step].agent
                   /\ e.type = stepSchedule[e.step].type
        /\ \A e \in LogOf(m.id), f \in LogOf(m.id) :
               e.step < f.step => (e.id < f.id /\ e.ts <= f.ts)
        /\ \E k \in 0..Len(stepSchedule) : StepsOf(m.id) = 1..k
        /\ (Quiescent /\ ncalls.tick = TicksToDone) =>
               /\ StepsOf(m.id) = 1..Len(stepSchedule)
               /\ Cardinality(LogOf(m.id)) = Len(stepSchedule)
               /\ m.status = "done"
               /\ m.currentStep = Len(stepSchedule)

\* The sixteenth tick has been answered with the event of step 17.
C19_Witness ==
    /\ Quiescent /\ ncalls.tick = TicksToDone
    /\ \E c \in Pollers :
           /\ TickReturned(c) /\ calls[c].resp.used = "fallback"
           /\ calls[c].resp.event.step = Len(stepSchedule)
           /\ calls[c].resp.event \in events

\* C20: whichever way the generator fails, a tick on a running mission whose
\* next step has no event is answered 200 ok, its event is stored for that
\* step with the scripted content and source fallback, and currentStep has
\* advanced to the step.
C20_GeneratorFailureFallsBack ==
    \A c \in Pollers :
        TickReturned(c) =>
            /\ calls[c].resp.code = 200 /\ calls[c].resp.ok
            /\ calls[c].nextStep # 0 =>
                   LET e == calls[c].resp.event
                   IN  /\ e \in events
                       /\ e.missionId = calls[c].missionId
                       /\ e.step = calls[c].nextStep
                       /\ e.source = "fallback"
                       /\ calls[c].resp.used = "fallback"
                       /\ e.summary = scriptedEvent(e.step).summary
                       /\ e.payload = scriptedEvent(e.step).payload
                       /\ findMission(calls[c].missionId).currentStep = e.step

\* A tick whose generator failed has written a CHECKPOINT step.
C20_Witness ==
    \E c \in Pollers :
        /\ TickReturned(c) /\ calls[c].nextStep # 0
        /\ calls[c].resp.event.type = "CHECKPOINT"
        /\ calls[c].resp.event.source = "fallback"

\* C21: every tick request is eventually answered, also when the content
\* generator never answers.
C21_TickCompletes ==
    \A c \in Slots :
        (calls[c].op = "tick" /\ InFlight(c)) ~> (calls[c].pc = "done")

\* The emit request in slot c has a malformed mission id, a step that is
\* not positive, or an agent or type outside the fixed sets.
EmitMalformed(c) ==
    /\ calls[c].op = "emit"
    /\ \/ ~ObjectIdIsValid(calls[c].missionId)
       \/ calls[c].body.step <= 0
       \/ calls[c].body.agent \notin validAgents
       \/ calls[c].body.type \notin validTypes

\* C22: an emit request with a malformed mission id, a non-positive step or
\* an agent or type outside the fixed sets is answered 400 at once, and no
\* event of it is stored.
C22_MalformedEmitRejected ==
    \A c \in Slots :
        EmitMalformed(c) =>
            /\ calls[c].pc = "done" /\ calls[c].resp.code = 400
            /\ \A e \in events : e.step > 0

\* C23: every step of a start, emit, tick or fork request leaves every
\* stored event in the store as it is; only the last step of the
\* administrative reset removes events.
C23_EventsImmutable ==
    [][\A e \in events :
          \/ e \in events'
          \/ \E c \in Slots : /\ calls[c].op = "reset" /\ calls[c].pc = "r_events"
                               /\ calls'[c].pc = "done"]_vars

\* A fork copied a log on which an emit or a tick had written, and a reset
\* has then emptied the store.
C23_Witness ==
    /\ events = {}
    /\ \E c \in Slots : calls[c].op = "reset" /\ calls[c].pc = "done"
    /\ ncalls.fork = 1 /\ ncalls.emit + ncalls.tick >= 1
    /\ nextOid > 5

\* C24: a tick request that reads a mission whose status is not running is
\* answered at once with that status and no event, and writes nothing.
C24_TickOnStoppedMissionIsNoOp ==
    [][\A c \in Slots :
          LET mission == findMission(calls[c].missionId)
          IN  (/\ calls[c].op = "tick" /\ calls[c].pc = "t_find"
               /\ calls'[c] # calls[c]
               /\ mission # NoMission /\ mission.status # "running") =>
                  /\ calls'[c].pc = "done"
                  /\ calls'[c].resp.code = 200 /\ calls'[c].resp.ok
                  /\ calls'[c].resp.status = mission.status
                  /\ calls'[c].resp.event = NoEvent
                  /\ events' = events
                  /\ missions' = missions]_vars

\* A tick on a mission that an emitted DONE event had ended was answered.
C24_Witness ==
    \E c \in Slots :
        /\ TickReturned(c) /\ calls[c].resp.status = "done"
        /\ findMission(calls[c].missionId).status = "done"
        /\ calls[c].nextStep = 0

\* Request c, an emit or a tick, is about to write the mission after it
\* inserted a FAIL event.
WritesAfterFail(c) ==
    \/ /\ calls[c].op = "emit" /\ calls[c].pc = "e_update"
       /\ calls[c].body.type = "FAIL"
    \/ /\ calls[c].op = "tick" /\ calls[c].pc = "t_update"
       /\ calls[c].eventDoc.type = "FAIL"

\* C25: no mission ever has status failed, and the write of the mission
\* that follows the insert of a FAIL event, by emit or by tick, leaves the
\* status of every mission as it was.
C25_FailEventKeepsStatus ==
    /\ [](\A m \in missions : m.status # "failed")
    /\ [][\A c \in Slots :
             (WritesAfterFail(c) /\ calls'[c] # calls[c]) =>
                 \A m \in missions : \E n \in missions' :
                     n.id = m.id /\ n.status = m.status]_vars

\* An emitted FAIL event and a ticked one are stored and both requests
\* have written the mission.
C25_Witness ==
    /\ Quiescent
    /\ \E m \in missions :
           /\ m.currentStep = 9
           /\ \E e \in LogOf(m.id) : e.step = 8 /\ e.type = "FAIL" /\ e.source = ""
           /\ \E e \in LogOf(m.id) : e.step = 9 /\ e.type = "FAIL" /\ e.source # ""

\* The events that tick appended (and their copies made by fork): tick is
\* the only writer that sets the source field.
TickEvents == {e \in events : e.source \in {"openai", "fallback"}}

\* C29: every event appended by tick at step n has the agent and the type
\* of the step schedule for n, whether the generator or the fallback gave
\* its content, and no such event has a step beyond totalSteps.
C29_TickEventsFollowSchedule ==
    \A e \in TickEvents :
        /\ e.step \in 1..getTotalSteps
        /\ e.agent = stepSchedule[e.step].agent
        /\ e.type = stepSchedule[e.step].type

\* A generated event and a fallback event are stored, past the first
\* step.
C29_Witness ==
    /\ \E e \in TickEvents : e.source = "openai" /\ e.step > 1
    /\ \E e \in TickEvents : e.source = "fallback" /\ e.step > 1

\* A tick on a running mission whose currentStep is at the end of the
\* schedule has returned done without an event.
C29_PastSchedule ==
    \E c \in Slots :
        /\ TickReturned(c) /\ calls[c].resp.status = "done"
        /\ findMission(calls[c].missionId).status = "running"
        /\ findMission(calls[c].missionId).currentStep >= getTotalSteps

\* The steps of a sequence of events ascend strictly.
Ascending(evts) ==
    \A i, j \in DOMAIN evts : i < j => evts[i].step < evts[j].step

\* What the view shows in replay mode is the prefix of the snapshot that
\* the pacing ticks have revealed, never more than the snapshot; a finished
\* replay shows the whole snapshot.
ReplayShowsPrefix ==
    page.mode = "replay" =>
        /\ Ascending(page.replayEvents)
        /\ page.replayIndex <= Len(page.replayEvents)
        /\ page.visibleEvents = SubSeq(page.replayEvents, 1, page.replayIndex)
        /\ page.replayFinished => page.visibleEvents = page.replayEvents

\* A pacing tick of an unfinished replay reveals exactly the next event
\* of the snapshot, or finds all of them revealed and finishes the replay.
ReplayTickRevealsOne ==
    (/\ page.mode = "replay" /\ ~page.replayFinished
     /\ page'.mode = "replay" /\ page'.replayEvents = page.replayEvents
     /\ <<page'.replayIndex, page'.replayFinished>>
            # <<page.replayIndex, page.replayFinished>>)
    => IF page.replayIndex < Len(page.replayEvents)
       THEN /\ page'.replayIndex = page.replayIndex + 1
            /\ ~page'.replayFinished
       ELSE /\ page'.replayIndex = page.replayIndex
            /\ page'.replayFinished

\* A finished replay stays finished, its snapshot in view, until the
\* replay is restarted (from its start offset) or exited.
ReplayStaysFinished ==
    (page.mode = "replay" /\ page.replayFinished) =>
        \/ /\ page'.mode = "replay" /\ page'.replayFinished
           /\ page'.visibleEvents = page.visibleEvents
        \/ page'.mode = "live"
        \/ /\ page'.mode = "replay" /\ ~page'.replayFinished
           /\ page'.replayEvents = page.events
           /\ Len(page'.visibleEvents) = page'.replayIndex
           /\ page'.replayIndex < Len(page'.replayEvents)

\* C26: a replay reveals the captured snapshot one event per pacing tick
\* as growing prefixes in ascending step order, never more than the
\* snapshot holds; after the last event is revealed the replay becomes
\* finished, with exactly the snapshot in view, and stays finished until it
\* is restarted or exited.
C26_ReplayRevealsSnapshot ==
    /\ []ReplayShowsPrefix
    /\ [][ReplayTickRevealsOne /\ ReplayStaysFinished]_vars
    /\ (page.mode = "replay" /\ ~page.replayFinished)
           ~> (page.replayFinished \/ page.mode = "live")

\* A replay from the start of a snapshot of three events has finished.
C26_Witness ==
    /\ page.mode = "replay" /\ page.replayFinished
    /\ ~page.replayFromCheckpoint
    /\ Len(page.replayEvents) = 3 /\ Len(page.visibleEvents) = 3

\* C27: while the view is in replay mode the poll loop is not set.
C27_NoPollingInReplay ==
    page.mode = "replay" => page.polling = NoOid

\* The view was crashed or reloaded and nothing is left to happen without
\* the user: the view is up and not starting a mission, no request is in
\* flight, no fetch is pending and no timer is set.
Recovered ==
    /\ ncalls.crash > 0
    /\ ~page.isCrashed /\ ~page.isLoading
    /\ Quiescent
    /\ page.fetches = {} /\ page.timers = {}

\* The mission is done and its log holds exactly one event for every step
\* of the schedule.
Complete(m) ==
    /\ m.status = "done"
    /\ \A n \in 1..getTotalSteps :
           Cardinality({e \in LogOf(m.id) : e.step = n}) = 1

\* The fetch f of a recovery (handleRecover, or the hydrate effect after a
\* reload) resolves on a running scripted mission.
Resumes(f) ==
    /\ f \in page.fetches /\ f.pc = "back"
    /\ f.andThen \in {"hydrate", "handler"}
    /\ f.mission.status = "running" /\ f.mission.runMode = "scripted"
    /\ page'.fetches = page.fetches \ {f}
    /\ page'.mission = f.mission

\* The recovery schedules the steps after the persisted currentStep, and
\* none before.
ResumesAfterCurrentStep ==
    [][\A f \in page.fetches :
          Resumes(f) =>
              /\ (f.mission.currentStep + 1)..getTotalSteps
                     \subseteq page'.scheduledSteps
              /\ \A batch \in page'.timers \ page.timers :
                     \A step \in batch.steps : step > f.mission.currentStep]_vars

\* C28: after a crash or a reload of the view at any point of a running
\* scripted mission and the recovery (which resumes after the persisted
\* currentStep), once everything has run the mission is done with exactly
\* one stored event for every step 1..17.
C28_CrashRecoveryCompletes ==
    Recovered => \A m \in missions : Complete(m)

\* The view was crashed and recovered once the mission id was stored, and
\* the mission has run to its end.
C28_CrashedAndRecovered ==
    /\ Recovered /\ \A m \in missions : Complete(m)
    /\ page.missionId # NoOid /\ page.scheduledSteps # {}
    /\ 2 \notin page.scheduledSteps

\* C30: the script has exactly one entry for every step 1..17, and every
\* step the scripted driver has stored carries the agent and the type of
\* the step schedule, which are those of its script entry.
C30_ScriptAgreesWithSchedule ==
    \A n \in 1..getTotalSteps :
        /\ Cardinality({i \in DOMAIN demoScript : demoScript[i].step = n}) = 1
        /\ \A e \in events :
               e.step = n =>
                   /\ e.agent = getScheduleForStep(n).agent
                   /\ e.type = getScheduleForStep(n).type
                   /\ scriptedEvent(n).agent = getScheduleForStep(n).agent
                   /\ scriptedEvent(n).type = getScheduleForStep(n).type

\* C31: a tick request that finds an event stored at the step after the
\* currentStep it read is answered with success and that stored event, and
\* the step changes neither the event log nor any mission document.
C31_TickOnStoredStepHasNoEffect ==
    [][\A c \in Slots :
          (/\ calls[c].op = "tick" /\ calls[c].pc = "t_existing"
           /\ calls'[c] # calls[c]
           /\ calls[c].nextStep = calls[c].mission.currentStep + 1
           /\ \E e \in events : /\ e.missionId = calls[c].missionId
                                /\ e.step = calls[c].nextStep) =>
              /\ calls'[c].pc = "done"
              /\ calls'[c].resp.code = 200 /\ calls'[c].resp.ok
              /\ calls'[c].resp.step = calls[c].nextStep
              /\ calls'[c].resp.event \in events
              /\ calls'[c].resp.event.missionId = calls[c].missionId
              /\ calls'[c].resp.event.step = calls[c].nextStep
              /\ events' = events
              /\ missions' = missions
              /\ nextOid' = nextOid]_vars

\* A tick was answered with the event an emit had stored at the next step,
\* and the mission document still stands before that step.
C31_Witness ==
    \E c \in Slots :
        /\ TickReturned(c) /\ calls[c].resp.ok
        /\ calls[c].resp.event \in events
        /\ calls[c].resp.event.source = ""
        /\ calls[c].resp.event.step = calls[c].nextStep
        /\ findMission(calls[c].missionId).currentStep < calls[c].nextStep

\* C32: no mission whose runMode is scripted holds an event that a tick
\* request wrote (an event with source openai or fallback).
C32_TickLeavesScriptedMissions ==
    \A e \in TickEvents : findMission(e.missionId).runMode # "scripted"

\* The index at which a replay of `snapshot` starts.
StartOffset(snapshot, fromCheckpoint) ==
    LET cps == {i \in DOMAIN snapshot : snapshot[i].type = "CHECKPOINT"}
    IN  IF fromCheckpoint /\ cps # {} THEN Max(cps) - 1 ELSE 0

\* C33: a restart of a finished replay keeps the snapshot and the start
\* mode of the replay, is not finished, and shows the first events of the
\* snapshot up to the start offset: none, or those before its last checkpoint.
C33_RestartKeepsSnapshot ==
    [][(/\ page.mode = "replay" /\ page.replayFinished
        /\ page'.mode = "replay" /\ ~page'.replayFinished) =>
           /\ page'.replayEvents = page.replayEvents
           /\ page'.replayFromCheckpoint = page.replayFromCheckpoint
           /\ page'.replayIndex
                 = StartOffset(page.replayEvents, page.replayFromCheckpoint)
           /\ page'.visibleEvents
                 = SubSeq(page.replayEvents, 1, page'.replayIndex)]_vars

\* C34: when the view, in live mode, shows a mission with status done and
\* has no fetch pending (nothing is left that could still clear a timer),
\* the polling timer is cleared.
C34_PollingStopsWhenDone ==
    (/\ page.mode = "live" /\ ~page.isCrashed
     /\ page.mission.status = "done"
     /\ page.fetches = {}) => page.polling = NoOid

\* C35: no two batches of pending emit timers of the view hold the same
\* step of the same mission.  (Batches with equal steps are one element of
\* `timers`, so only batches that differ are compared.)
C35_OneTimerPerStep ==
    \A a \in page.timers, b \in page.timers :
        (a # b /\ a.missionId = b.missionId) => a.steps \cap b.steps = {}

\* C36: the log of every mission that start created holds exactly the
\* steps 1..k, where k is the mission's currentStep or the step after it
\* and k is at most the number of steps of the schedule.
C36_LogIsGaplessPrefix ==
    \A m \in missions :
        Started(m) =>
            \E k \in {m.currentStep, m.currentStep + 1} :
                /\ k <= getTotalSteps
                /\ StepsOf(m.id) = 1..k

\* The same, once start has written the first event of the mission.
C36_AfterFirstEvent ==
    \A m \in missions :
        (Started(m) /\ 1 \in StepsOf(m.id)) =>
            \E k \in {m.currentStep, m.currentStep + 1} :
                /\ k <= getTotalSteps
                /\ StepsOf(m.id) = 1..k

\* C37: when the mission the caller ticks, the one that start created or
\* later its fork, is running, then at some later time the mission the
\* caller ticks is done: the ticks, sent again and again, one request at a
\* time, take every running mission to done.
C37_TickedMissionReachesDone ==
    (findMission(Newest).status = "running")
        ~> (findMission(Newest).status = "done")

\* The same for the missions that do not stand at the last step of the
\* schedule while they are running.
C37_BeforeLastStep ==
    (findMission(Newest).status = "running")
        ~> (\/ findMission(Newest).status = "done"
            \/ findMission(Newest).currentStep >= getTotalSteps)

\* C38: the currentStep of every mission lies between 1 and the number of
\* steps of the schedule.
C38_CurrentStepInSchedule ==
    \A m \in missions : m.currentStep \in 1..getTotalSteps

\* C39: every mission document, of start or of fork, has the runMode
\* scripted or real.
C39_RunModeIsSet ==
    \A m \in missions : m.runMode \in RunModes

====
